---- MODULE Spec2Model ----
(***************************************************************************)
(* State-machine model of the stateful layers of                           *)
(* spikingjelly/activation_based/layer.py.                                 *)
(*                                                                         *)
(* Every module object is one variable holding a record of the object's    *)
(* fields.  `call` records the last operation performed on a module, with  *)
(* its argument and its return value.  A tensor of one time step is a      *)
(* function from element positions to integers; a tensor with a leading    *)
(* time axis is a sequence of such functions.  An Optional value is the    *)
(* empty sequence (None) or a one-element sequence.                        *)
(***************************************************************************)
EXTENDS Integers, Sequences, FiniteSets, TLC

VARIABLES layer, twin, sim, call

vars == <<layer, twin, sim, call>>

(***************************************************************************)
(* Bounds of the model.                                                    *)
(***************************************************************************)
\* planes of a one-step tensor: one plane per (sample, channel) pair
NumPlanes == 2
\* elements of one plane (height * width)
NumPixels == 2
\* longest time axis of a multi-step input
MaxT == 2

(***************************************************************************)
(* Tensors.                                                                *)
(***************************************************************************)
None == <<>>
Some(v) == <<v>>

Planes == 1..NumPlanes
Pixels == 1..NumPixels
Pos == Planes \X Pixels

ones_like(x) == [q \in DOMAIN x |-> 1]
Mul(a, b) == [q \in DOMAIN a |-> a[q] * b[q]]

\* the inputs fed to the layers: a constant tensor and a tensor whose
\* elements all differ, both without a zero element
XSet ==
    {[q \in Pos |-> -1], [q \in Pos |-> (q[1] - 1) * NumPixels + q[2]]}

\* inputs with a leading time axis, [T, ...] with 1 <= T <= MaxT
XSeqSet == UNION {[1..T -> XSet] : T \in 1..MaxT}

(***************************************************************************)
(* Dropout and Dropout2d.  p is counted in halves (p = 0 or p = 1/2), so   *)
(* that the scale 1 / (1 - p) of the kept elements is an integer.          *)
(***************************************************************************)
PSet == {0, 1}
DropScale(p) == 2 \div (2 - p)

\* torch.nn.functional.dropout(x, p, training=True): every element is
\* zeroed independently with probability p, the others are scaled
F_dropout(x, p) ==
    {[q \in DOMAIN x |-> IF q \in Z THEN 0 ELSE x[q] * DropScale(p)] :
        Z \in IF p = 0 THEN {{}} ELSE SUBSET (DOMAIN x)}

\* torch.nn.functional.dropout2d(x, p, training=True): whole planes are
\* zeroed, each with probability p
F_dropout2d(x, p) ==
    {[q \in DOMAIN x |-> IF q[1] \in ZP THEN 0 ELSE x[q] * DropScale(p)] :
        ZP \in IF p = 0 THEN {{}} ELSE SUBSET {q[1] : q \in DOMAIN x}}

\* the masks create_mask(x) can draw
MaskDraws(self, x) ==
    IF self.is2d THEN F_dropout2d(ones_like(x), self.p)
    ELSE F_dropout(ones_like(x), self.p)

\* Dropout.__init__ / Dropout2d.__init__
Dropout_init(is2d, p) ==
    [cls |-> IF is2d THEN "Dropout2d" ELSE "Dropout", is2d |-> is2d, p |-> p,
     training |-> TRUE, mask |-> None]

\* create_mask, r being the tensor the random draw gives
Dropout_create_mask(self, r) == [self EXCEPT !.mask = Some(r)]

\* mutant: a new mask at every training forward, as torch.nn.Dropout does
Dropout_single_step_forward_redraw(self, x, r) ==
    IF self.training
    THEN LET s1 == Dropout_create_mask(self, r)
         IN  [self |-> s1, y |-> Mul(x, s1.mask[1])]
    ELSE [self |-> self, y |-> x]

Dropout_single_step_forward(self, x, r) ==
    IF self.training
    THEN LET s1 == IF self.mask = None THEN Dropout_create_mask(self, r)
                   ELSE self
         IN  [self |-> s1, y |-> Mul(x, s1.mask[1])]
    ELSE [self |-> self, y |-> x]

\* mutant: a new mask at every training forward
Dropout_multi_step_forward_redraw(self, x_seq, r) ==
    IF self.training
    THEN LET s1 == Dropout_create_mask(self, r)
         IN  [self |-> s1,
              y |-> [t \in DOMAIN x_seq |-> Mul(x_seq[t], s1.mask[1])]]
    ELSE [self |-> self, y |-> x_seq]

\* mutant: the mask is used for this call and not kept
Dropout_multi_step_forward_nostore(self, x_seq, r) ==
    IF self.training
    THEN LET s1 == IF self.mask = None THEN Dropout_create_mask(self, r)
                   ELSE self
         IN  [self |-> self,
              y |-> [t \in DOMAIN x_seq |-> Mul(x_seq[t], s1.mask[1])]]
    ELSE [self |-> self, y |-> x_seq]

Dropout_multi_step_forward(self, x_seq, r) ==
    IF self.training
    THEN LET s1 == IF self.mask = None THEN Dropout_create_mask(self, r)
                   ELSE self
         IN  [self |-> s1,
              y |-> [t \in DOMAIN x_seq |-> Mul(x_seq[t], s1.mask[1])]]
    ELSE [self |-> self, y |-> x_seq]

\* MemoryModule.reset(): every registered memory returns to its registered
\* initial value, which for Dropout is mask = None
Dropout_reset(self) == [self EXCEPT !.mask = None]

\* the draws a forward call can consume: one only when it creates a mask
DrawsFor(self, x) ==
    IF self.training /\ self.mask = None THEN MaskDraws(self, x)
    ELSE {ones_like(x)}

OpDropS == "Dropout.single_step_forward"
OpDropM == "Dropout.multi_step_forward"
OpDropReset == "Dropout.reset"
OpDropTrain == "Dropout.train"

TwinIdle == Dropout_init(FALSE, 0)
SimIdle == [x_seq |-> <<>>, r |-> <<>>, t |-> 0, y_seq |-> <<>>, done |-> FALSE,
            twin_y |-> <<>>, batch |-> 0, steps |-> 0, shape |-> <<>>]

DropoutInit ==
    /\ \E is2d \in BOOLEAN, p \in PSet : layer = Dropout_init(is2d, p)
    /\ twin = TwinIdle
    /\ sim = SimIdle
    /\ call = [op |-> "init"]

DropoutSingleStep ==
    /\ layer.cls \in {"Dropout", "Dropout2d"}
    /\ \E x \in XSet : \E r \in DrawsFor(layer, x) :
          LET res == Dropout_single_step_forward(layer, x, r)
          IN  /\ layer' = res.self
              /\ call' = [op |-> OpDropS, training |-> layer.training,
                          drew |-> res.self.mask # layer.mask,
                          x |-> <<x>>, y |-> <<res.y>>]
    /\ UNCHANGED <<twin, sim>>

DropoutMultiStep ==
    /\ layer.cls \in {"Dropout", "Dropout2d"}
    /\ \E x_seq \in XSeqSet : \E r \in DrawsFor(layer, x_seq[1]) :
          LET res == Dropout_multi_step_forward(layer, x_seq, r)
          IN  /\ layer' = res.self
              /\ call' = [op |-> OpDropM, training |-> layer.training,
                          drew |-> res.self.mask # layer.mask,
                          x |-> x_seq, y |-> res.y]
    /\ UNCHANGED <<twin, sim>>

DropoutReset ==
    /\ layer.cls \in {"Dropout", "Dropout2d"}
    /\ layer' = Dropout_reset(layer)
    /\ call' = [op |-> OpDropReset]
    /\ UNCHANGED <<twin, sim>>

\* torch.nn.Module.train(mode) / eval()
DropoutTrain ==
    /\ layer.cls \in {"Dropout", "Dropout2d"}
    /\ \E mode \in BOOLEAN :
          /\ layer' = [layer EXCEPT !.training = mode]
          /\ call' = [op |-> OpDropTrain, mode |-> mode]
    /\ UNCHANGED <<twin, sim>>

DropoutNext ==
    \/ DropoutSingleStep
    \/ DropoutMultiStep
    \/ DropoutReset
    \/ DropoutTrain

SpecDropout == DropoutInit /\ [][DropoutNext]_vars

(***************************************************************************)
(* Two Dropout modules built alike and reset, given the same input and the *)
(* same random draw: `layer` is fed x_seq[0], x_seq[1], ... by            *)
(* single-step forwards, `twin` is fed x_seq by one multi-step forward.    *)
(***************************************************************************)
DropoutEqInit ==
    /\ \E is2d \in BOOLEAN, p \in PSet :
          /\ layer = Dropout_init(is2d, p)
          /\ twin = layer
          /\ \E x_seq \in XSeqSet : \E r \in MaskDraws(layer, x_seq[1]) :
                sim = [SimIdle EXCEPT !.x_seq = x_seq, !.r = r]
    /\ call = [op |-> "init"]

DropoutEqSingleStep ==
    /\ sim.t < Len(sim.x_seq)
    /\ LET res == Dropout_single_step_forward(layer, sim.x_seq[sim.t + 1],
                                               sim.r)
       IN  /\ layer' = res.self
           /\ sim' = [sim EXCEPT !.t = @ + 1, !.y_seq = Append(@, res.y)]
    /\ call' = [op |-> OpDropS]
    /\ UNCHANGED twin

DropoutEqMultiStep ==
    /\ ~sim.done
    /\ LET res == Dropout_multi_step_forward(twin, sim.x_seq, sim.r)
       IN  /\ twin' = res.self
           /\ sim' = [sim EXCEPT !.done = TRUE, !.twin_y = res.y]
    /\ call' = [op |-> OpDropM]
    /\ UNCHANGED layer

DropoutEqNext ==
    \/ DropoutEqSingleStep
    \/ DropoutEqMultiStep

SpecDropoutEq == DropoutEqInit /\ [][DropoutEqNext]_vars

(***************************************************************************)
(* Claims on Dropout.                                                      *)
(***************************************************************************)
DropFwd(c) == c.op \in {OpDropS, OpDropM}

\* every position where mask m is zero is zero at every step of output y
ZeroedIn(m, y) ==
    \A t \in DOMAIN y : \A q \in Pos : m[q] = 0 => y[t][q] = 0

\* C1: in training mode, once a mask exists it stays the same over every
\* step that is not a reset(), and every training forward, single-step or
\* multi-step, returns zero at every step of its output at every position
\* the mask zeroes: the positions zeroed at the first forward stay zeroed.
C1_SameMaskEveryStep ==
    /\ [][(layer.mask # None /\ call'.op # OpDropReset)
             => /\ layer'.mask = layer.mask
                /\ (DropFwd(call') /\ call'.training)
                      => ZeroedIn(layer.mask[1], call'.y)]_vars
    /\ [](DropFwd(call) /\ call.training
             => layer.mask # None /\ ZeroedIn(layer.mask[1], call.y))

\* a later multi-step training forward (it drew no mask) whose output is
\* zero at a position where its input is not
C1_Witness ==
    /\ call.op = OpDropM /\ call.training /\ ~call.drew
    /\ Len(call.x) = MaxT
    /\ \E q \in Pos : /\ layer.mask[1][q] = 0
                       /\ \A t \in DOMAIN call.x :
                             call.x[t][q] # 0 /\ call.y[t][q] = 0

\* C2: the mask changes only in two ways: reset() sets it to None, and a
\* training forward that finds it None draws one of the masks create_mask
\* can give; after reset() there is no mask, after a training forward
\* there is one.
C2_MaskUpdatedOnlyAfterReset ==
    /\ [][layer'.mask # layer.mask
             => \/ call'.op = OpDropReset /\ layer'.mask = None
                \/ /\ DropFwd(call') /\ call'.training
                   /\ layer.mask = None /\ layer'.mask # None
                   /\ layer'.mask[1] \in MaskDraws(layer, call'.x[1])]_vars
    /\ [](call.op = OpDropReset => layer.mask = None)
    /\ [](DropFwd(call) /\ call.training => layer.mask # None)

\* a training forward that drew a mask zeroing some but not all positions
C2_Witness ==
    /\ DropFwd(call) /\ call.training /\ call.drew
    /\ \E q1, q2 \in Pos : layer.mask[1][q1] = 0 /\ layer.mask[1][q2] # 0

\* C3: from a reset state in training mode and with the same draw, one
\* multi-step forward on x_seq returns what the T single-step forwards on
\* x_seq[0..T-1] return and leaves the same mask, a mask of the shape of
\* one time step.
C3_MultiStepEqualsSingleSteps ==
    (sim.done /\ sim.t = Len(sim.x_seq))
        => /\ sim.twin_y = sim.y_seq
           /\ twin.mask = layer.mask
           /\ twin.mask # None
           /\ DOMAIN twin.mask[1] = Pos

\* both runs done on an input of MaxT differing steps, with a mask that
\* zeroes a position
C3_Witness ==
    /\ sim.done /\ sim.t = Len(sim.x_seq)
    /\ Len(sim.x_seq) = MaxT
    /\ sim.x_seq[1] # sim.x_seq[MaxT]
    /\ \E q \in Pos : twin.mask[1][q] = 0 /\ sim.twin_y[MaxT][q] = 0

(***************************************************************************)
(* DropConnectLinear.  A [batch, features] tensor is a sequence of rows,   *)
(* the weight a sequence of out_features rows of in_features elements,     *)
(* dropped_w a sequence of batch such matrices.  p is counted in halves.   *)
(* The batch size of the inputs of one module is sim.batch.                *)
(***************************************************************************)
\* largest batch size of an input
MaxBatch == 1

RECURSIVE SumSeq(_)
SumSeq(s) == IF s = <<>> THEN 0 ELSE s[1] + SumSeq(Tail(s))

\* the activation modules a DropConnectLinear is built with: none, a
\* stateless one without a reset method (the default nn.ReLU()), a
\* stateful one with a reset method (a spiking neuron)
ActKinds == {"None", "ReLU", "IFNode"}
Act_init(kind) == [kind |-> kind, v |-> None]

\* hasattr(self.activation, 'reset')
Act_has_reset(act) == act.kind = "IFNode"

\* the stateful activation: the integrate-and-fire neuron
\* IFNode(v_threshold=2.), hard reset to 0, whose membrane potential v is registered as 0.
\* (None here) and becomes a tensor at the first forward
IF_charge(act, x) ==
    [b \in DOMAIN x |-> [o \in DOMAIN x[b] |->
        (IF act.v = None THEN 0 ELSE act.v[1][b][o]) + x[b][o]]]

Act_forward(act, x) ==
    CASE act.kind = "ReLU" ->
            [act |-> act,
             y |-> [b \in DOMAIN x |-> [o \in DOMAIN x[b] |->
                      IF x[b][o] > 0 THEN x[b][o] ELSE 0]]]
      [] act.kind = "IFNode" ->
            LET h == IF_charge(act, x)
                spike == [b \in DOMAIN x |-> [o \in DOMAIN x[b] |->
                            IF h[b][o] >= 2 THEN 1 ELSE 0]]
            IN  [act |-> [act EXCEPT !.v = Some(
                            [b \in DOMAIN x |-> [o \in DOMAIN x[b] |->
                               IF spike[b][o] = 1 THEN 0 ELSE h[b][o]]])],
                 y |-> spike]

Act_reset(act) == [act EXCEPT !.v = None]

\* the step mode MemoryModule.__init__ gives a module
MemoryModule_step_mode == "s"

\* reset_parameters(): the random initial weight and bias, here fixed
\* non-zero values that differ from element to element
DCL_reset_parameters(in_features, out_features, bias) ==
    [weight |-> [o \in 1..out_features |-> [i \in 1..in_features |-> o + i - 1]],
     bias |-> IF bias THEN Some([o \in 1..out_features |-> o]) ELSE None]

\* DropConnectLinear.__init__; dropped_b is registered only with a bias and
\* is None here, never read nor written, without one
DropConnectLinear_init(in_features, out_features, bias, p, invariant, activation, state_mode) ==
    LET prm == DCL_reset_parameters(in_features, out_features, bias)
    IN  [cls |-> "DropConnectLinear", step_mode |-> MemoryModule_step_mode,
         state_mode |-> state_mode, in_features |-> in_features,
         out_features |-> out_features, weight |-> prm.weight,
         bias |-> prm.bias, p |-> p, dropped_w |-> None, dropped_b |-> None,
         invariant |-> invariant, activation |-> activation,
         training |-> TRUE]

\* the values of torch.rand_like(...) > self.p for the weight, repeated
\* batch_size times, and for the bias
MaskWDraws(self, batch_size) ==
    [1..batch_size -> [1..self.out_features -> [1..self.in_features ->
        IF self.p = 0 THEN {1} ELSE {0, 1}]]]
MaskBDraws(self, batch_size) ==
    IF self.bias = None THEN {<<>>}
    ELSE [1..batch_size -> [1..self.out_features ->
            IF self.p = 0 THEN {1} ELSE {0, 1}]]

\* drop(batch_size), mask_w and mask_b being what the random draws give
DCL_drop(self, batch_size, mask_w, mask_b) ==
    LET w == [b \in 1..batch_size |-> [o \in 1..self.out_features |->
                [i \in 1..self.in_features |->
                    self.weight[o][i] * mask_w[b][o][i]]]]
    IN  IF self.bias = None THEN [self EXCEPT !.dropped_w = Some(w)]
        ELSE [self EXCEPT !.dropped_w = Some(w),
                          !.dropped_b = Some(
                              [b \in 1..batch_size |->
                                 [o \in 1..self.out_features |->
                                    self.bias[1][o] * mask_b[b][o]]])]

\* torch.bmm(self.dropped_w, input.unsqueeze(-1)).squeeze(-1)
DCL_bmm(dropped_w, input) ==
    [b \in DOMAIN input |-> [o \in DOMAIN dropped_w[b] |->
        SumSeq([i \in DOMAIN input[b] |-> dropped_w[b][o][i] * input[b][i]])]]

\* the training branch after the connections are dropped
DCL_train_output(s1, input, drops) ==
    LET prod == DCL_bmm(s1.dropped_w[1], input)
        ret == IF s1.bias = None THEN prod
               ELSE [b \in DOMAIN prod |-> [o \in DOMAIN prod[b] |->
                        prod[b][o] + s1.dropped_b[1][b][o]]]
    IN  IF s1.activation.kind = "None"
        THEN [self |-> s1, y |-> ret, drops |-> drops]
        ELSE LET a == Act_forward(s1.activation, ret)
             IN  [self |-> [s1 EXCEPT !.activation = a.act], y |-> a.y,
                  drops |-> drops]

\* the inference branch: `sample` stands for the tensor drawn from the
\* Gaussian of mean mu and variance sigma2, samples_num being 1
DCL_eval_output(self, sample) ==
    IF self.activation.kind = "None"
    THEN [self |-> self, y |-> sample, drops |-> 0]
    ELSE LET a == Act_forward(self.activation, sample)
         IN  [self |-> [self EXCEPT !.activation = a.act], y |-> a.y,
              drops |-> 0]

\* mutant: invariant is ignored, the connections are dropped once
DCL_single_step_forward_keep(self, input, mask_w, mask_b, sample) ==
    IF self.training
    THEN IF self.dropped_w = None
         THEN DCL_train_output(DCL_drop(self, Len(input), mask_w, mask_b),
                               input, 1)
         ELSE DCL_train_output(self, input, 0)
    ELSE DCL_eval_output(self, sample)

\* mutant: invariant is ignored, the connections are dropped at every call
DCL_single_step_forward_always(self, input, mask_w, mask_b, sample) ==
    IF self.training
    THEN DCL_train_output(DCL_drop(self, Len(input), mask_w, mask_b),
                          input, 1)
    ELSE DCL_eval_output(self, sample)

\* single_step_forward; drops counts the calls of drop()
DCL_single_step_forward(self, input, mask_w, mask_b, sample) ==
    IF self.training
    THEN IF self.invariant
         THEN IF self.dropped_w = None
              THEN DCL_train_output(
                       DCL_drop(self, Len(input), mask_w, mask_b), input, 1)
              ELSE DCL_train_output(self, input, 0)
         ELSE DCL_train_output(DCL_drop(self, Len(input), mask_w, mask_b),
                               input, 1)
    ELSE DCL_eval_output(self, sample)

\* MemoryModule.reset(): dropped_w, and dropped_b when registered, return
\* to the registered None
DCL_super_reset(self) ==
    [self EXCEPT !.dropped_w = None, !.dropped_b = None]

\* mutant: the activation is not reset
DCL_reset_linear_only(self) == DCL_super_reset(self)

\* DropConnectLinear.reset()
DCL_reset(self) ==
    LET s1 == DCL_super_reset(self)
    IN  IF Act_has_reset(s1.activation)
        THEN [s1 EXCEPT !.activation = Act_reset(@)]
        ELSE s1

OpDCLForward == "DropConnectLinear.single_step_forward"
OpDCLReset == "DropConnectLinear.reset"
OpDCLTrain == "DropConnectLinear.train"

\* the inputs of batch size B: spikes
DCLInputs(self, B) ==
    {[b \in 1..B |-> [i \in 1..self.in_features |-> 1]],
     [b \in 1..B |-> [i \in 1..self.in_features |-> IF i = b THEN 1 ELSE 0]]}

\* the Gaussian samples of the inference branch
DCLSamples(self, B) ==
    {[b \in 1..B |-> [o \in 1..self.out_features |-> v]] : v \in {0, 1}}

DropConnectInit ==
    /\ \E bias \in BOOLEAN, p \in PSet, invariant \in BOOLEAN,
          kind \in ActKinds, state_mode \in {"s", "m"} :
          layer = DropConnectLinear_init(2, 1, bias, p, invariant,
                                         Act_init(kind), state_mode)
    /\ twin = TwinIdle
    /\ \E B \in 1..MaxBatch : sim = [SimIdle EXCEPT !.batch = B]
    /\ call = [op |-> "init"]

DropConnectForward ==
    /\ layer.cls = "DropConnectLinear"
    /\ \E input \in DCLInputs(layer, sim.batch) :
       \E mask_w \in IF layer.training THEN MaskWDraws(layer, sim.batch)
                     ELSE {<<>>} :
       \E mask_b \in IF layer.training THEN MaskBDraws(layer, sim.batch)
                     ELSE {<<>>} :
       \E sample \in IF layer.training THEN {<<>>}
                     ELSE DCLSamples(layer, sim.batch) :
          LET res == DCL_single_step_forward(layer, input, mask_w, mask_b,
                                             sample)
          IN  /\ layer' = res.self
              /\ call' = [op |-> OpDCLForward, training |-> layer.training,
                          was_none |-> layer.dropped_w = None,
                          drops |-> res.drops, x |-> input, y |-> res.y]
    /\ UNCHANGED <<twin, sim>>

DropConnectReset ==
    /\ layer.cls = "DropConnectLinear"
    /\ layer' = DCL_reset(layer)
    /\ call' = [op |-> OpDCLReset,
                had_dropped |-> layer.dropped_w # None,
                had_v |-> layer.activation.v # None]
    /\ UNCHANGED <<twin, sim>>

DropConnectTrain ==
    /\ layer.cls = "DropConnectLinear"
    /\ \E mode \in BOOLEAN :
          /\ layer' = [layer EXCEPT !.training = mode]
          /\ call' = [op |-> OpDCLTrain, mode |-> mode]
    /\ UNCHANGED <<twin, sim>>

DropConnectNext ==
    \/ DropConnectForward
    \/ DropConnectReset
    \/ DropConnectTrain

SpecDropConnect == DropConnectInit /\ [][DropConnectNext]_vars

(***************************************************************************)
(* Claims on DropConnectLinear.                                            *)
(***************************************************************************)
DCLTrainFwd(c) == c.op = OpDCLForward /\ c.training

\* some connection of the weight is dropped in dropped_w
SomeDropped(self) ==
    \E b \in DOMAIN self.dropped_w[1] : \E o \in 1..self.out_features :
        \E i \in 1..self.in_features :
            self.dropped_w[1][b][o][i] = 0 /\ self.weight[o][i] # 0

\* C5: with invariant = True, a training forward drops the connections
\* exactly when there are none dropped yet (the first forward, and the first
\* after reset()), every other forward leaves dropped_w and dropped_b as
\* they are, and they change in no other way than by that first drop and by
\* reset(), which clears them.
C5_InvariantDropsOnce ==
    /\ [][(layer.invariant /\ DCLTrainFwd(call'))
             => IF layer.dropped_w = None
                THEN /\ call'.drops = 1
                     /\ layer'.dropped_w # None
                     /\ layer.bias # None => layer'.dropped_b # None
                ELSE /\ call'.drops = 0
                     /\ layer'.dropped_w = layer.dropped_w
                     /\ layer'.dropped_b = layer.dropped_b]_vars
    /\ [][(layer.invariant /\ (layer'.dropped_w # layer.dropped_w
                               \/ layer'.dropped_b # layer.dropped_b))
             => \/ call'.op = OpDCLReset /\ layer'.dropped_w = None
                \/ DCLTrainFwd(call') /\ layer.dropped_w = None]_vars
    /\ []((layer.cls = "DropConnectLinear" /\ call.op = OpDCLReset)
             => layer.dropped_w = None)

\* a later training forward of an invariant module that kept the
\* connections dropped before it, some of them dropped
C5_Witness ==
    /\ layer.cls = "DropConnectLinear" /\ layer.invariant
    /\ DCLTrainFwd(call) /\ ~call.was_none /\ call.drops = 0
    /\ SomeDropped(layer)

\* C6: with invariant = False, every training forward calls drop() exactly
\* once, whether or not dropped weights exist, leaves dropped_w = weight *
\* mask for one of the masks drop() can draw, and computes its output from
\* the weights it has just dropped.
C6_RedroppedEveryForward ==
    [][(layer.cls = "DropConnectLinear" /\ ~layer.invariant
          /\ DCLTrainFwd(call'))
         => /\ call'.drops = 1
            /\ \E mask_w \in MaskWDraws(layer, Len(call'.x)) :
               \E mask_b \in MaskBDraws(layer, Len(call'.x)) :
                  LET s1 == DCL_drop(layer, Len(call'.x), mask_w, mask_b)
                  IN  /\ layer'.dropped_w = s1.dropped_w
                      /\ layer'.dropped_b = s1.dropped_b
                      /\ call'.y = DCL_train_output(s1, call'.x, 1).y]_vars

\* a training forward of a module that is not invariant, which found
\* dropped weights and dropped again
C6_Witness ==
    /\ layer.cls = "DropConnectLinear" /\ ~layer.invariant
    /\ DCLTrainFwd(call) /\ ~call.was_none /\ call.drops = 1
    /\ SomeDropped(layer)

\* C7: after reset() dropped_w and dropped_b are None again and an
\* activation that has a reset method is in its initial state; reset()
\* changes neither the weight nor the bias, nor an activation without a
\* reset method.
C7_ResetFullyConnected ==
    /\ []((layer.cls = "DropConnectLinear" /\ call.op = OpDCLReset)
             => /\ layer.dropped_w = None
                /\ layer.dropped_b = None
                /\ Act_has_reset(layer.activation)
                      => layer.activation = Act_init(layer.activation.kind))
    /\ [][call'.op = OpDCLReset
             => /\ layer'.weight = layer.weight
                /\ layer'.bias = layer.bias
                /\ ~Act_has_reset(layer.activation)
                      => layer'.activation = layer.activation]_vars

\* a reset() of a module with a bias that had dropped connections and a
\* stateful activation holding a state
C7_Witness ==
    /\ layer.cls = "DropConnectLinear" /\ call.op = OpDCLReset
    /\ call.had_dropped /\ call.had_v
    /\ layer.bias # None
    /\ Act_has_reset(layer.activation)

\* C8: the step mode given to the constructor is the module's step_mode.
C8_StepModeFromConstructor ==
    layer.cls = "DropConnectLinear" => layer.step_mode = layer.state_mode

(***************************************************************************)
(* Exact arithmetic for the layers that compute with fractions: a number   *)
(* is a fraction n / d in lowest terms with d > 0.                         *)
(***************************************************************************)
Abs(n) == IF n < 0 THEN -n ELSE n

RECURSIVE GCD(_, _)
GCD(a, b) == IF b = 0 THEN a ELSE GCD(b, a % b)

RNorm(n, d) ==
    LET g == GCD(Abs(n), Abs(d))
        sg == IF d < 0 THEN -1 ELSE 1
    IN  [n |-> (sg * n) \div g, d |-> (sg * d) \div g]

R(n) == [n |-> n, d |-> 1]
RAdd(a, b) == RNorm(a.n * b.d + b.n * a.d, a.d * b.d)
RSub(a, b) == RNorm(a.n * b.d - b.n * a.d, a.d * b.d)
RMul(a, b) == RNorm(a.n * b.n, a.d * b.d)
RDiv(a, b) == RNorm(a.n * b.d, a.d * b.n)
RLess(a, b) == a.n * b.d < b.n * a.d

RECURSIVE RSumSeq(_)
RSumSeq(s) == IF s = <<>> THEN R(0) ELSE RAdd(s[1], RSumSeq(Tail(s)))

\* the spike tensors fed to the layers: no spike, a spike everywhere, and
\* spikes at the positions whose two indices have an even sum
SpikeSet ==
    {[q \in Pos |-> R(0)], [q \in Pos |-> R(1)],
     [q \in Pos |-> IF (q[1] + q[2]) % 2 = 0 THEN R(1) ELSE R(0)]}

\* most forward steps one module takes in a behaviour
MaxSteps == 3

(***************************************************************************)
(* NeuNorm, for inputs of one sample: a plane is a channel, in_channels is *)
(* NumPlanes and the memory x has the one plane 1.                         *)
(***************************************************************************)
NeuNorm_init(in_channels, k, shared_across_channels, step_mode) ==
    [cls |-> "NeuNorm", step_mode |-> step_mode, x |-> None, k0 |-> k,
     k1 |-> RDiv(RSub(R(1), k), R(in_channels * in_channels)),
     shared |-> shared_across_channels,
     w |-> [q \in (IF shared_across_channels THEN {1} ELSE 1..in_channels)
                     \X Pixels |-> R(q[1] + q[2])]]

\* in_spikes.sum(dim=1, keepdim=True)
ChannelSum(in_spikes) ==
    [q \in {1} \X Pixels |->
        RSumSeq([c \in 1..NumPlanes |-> in_spikes[<<c, q[2]>>]])]

\* mutant: the memory is not scaled by k0
NeuNorm_single_step_forward_noscale(self, in_spikes) ==
    LET sum == ChannelSum(in_spikes)
        x == [q \in DOMAIN sum |->
                RAdd(IF self.x = None THEN R(0) ELSE self.x[1][q],
                     RMul(self.k1, sum[q]))]
    IN  [self |-> [self EXCEPT !.x = Some(x)],
         y |-> [q \in DOMAIN in_spikes |->
                  RSub(in_spikes[q],
                       RMul(self.w[<<IF self.shared THEN 1 ELSE q[1], q[2]>>],
                            x[<<1, q[2]>>]))]]

\* single_step_forward; the registered x = 0. is None here
NeuNorm_single_step_forward(self, in_spikes) ==
    LET sum == ChannelSum(in_spikes)
        x == [q \in DOMAIN sum |->
                RAdd(RMul(self.k0,
                          IF self.x = None THEN R(0) ELSE self.x[1][q]),
                     RMul(self.k1, sum[q]))]
    IN  [self |-> [self EXCEPT !.x = Some(x)],
         y |-> [q \in DOMAIN in_spikes |->
                  RSub(in_spikes[q],
                       RMul(self.w[<<IF self.shared THEN 1 ELSE q[1], q[2]>>],
                            x[<<1, q[2]>>]))]]

(***************************************************************************)
(* SynapseFilter.  The learnable w = -log(tau - 1) is kept as the number   *)
(* tau - 1 it is the negated logarithm of, so that sigmoid(w) is exact.    *)
(***************************************************************************)
\* what is left of a construction that raised AssertionError
AssertionError == [cls |-> "AssertionError"]

\* mutant: the time constant is not checked
SynapseFilter_init_unchecked(tau, learnable, step_mode) ==
    [cls |-> "SynapseFilter", step_mode |-> step_mode, learnable |-> learnable,
     tau |-> IF learnable THEN None ELSE Some(tau),
     w |-> IF learnable THEN Some([neg_log_of |-> RSub(tau, R(1))]) ELSE None,
     out_i |-> None]

\* SynapseFilter.__init__, with its assert tau > 1
SynapseFilter_init(tau, learnable, step_mode) ==
    IF ~RLess(R(1), tau) THEN AssertionError
    ELSE [cls |-> "SynapseFilter", step_mode |-> step_mode,
          learnable |-> learnable,
          tau |-> IF learnable THEN None ELSE Some(tau),
          w |-> IF learnable THEN Some([neg_log_of |-> RSub(tau, R(1))])
                ELSE None,
          out_i |-> None]

\* w.sigmoid() = 1 / (1 + exp(-w))
Sigmoid(w) == RDiv(R(1), RAdd(R(1), w.neg_log_of))

\* mutant: the current decays at a step with a spike as well
js_single_step_forward_leaky(x, inv_tau, out_i) ==
    [q \in DOMAIN x |->
        RAdd(RSub(out_i[q], RMul(out_i[q], inv_tau)), x[q])]

\* js_single_step_forward and js_single_step_forward_learnable
js_single_step_forward(x, inv_tau, out_i) ==
    [q \in DOMAIN x |->
        RAdd(RSub(out_i[q],
                  RMul(RMul(RSub(R(1), x[q]), out_i[q]), inv_tau)),
             x[q])]

\* single_step_forward; the registered out_i = 0. is None here
SynapseFilter_single_step_forward(self, x) ==
    LET out_i == IF self.out_i = None THEN [q \in DOMAIN x |-> R(0)]
                 ELSE self.out_i[1]
        inv_tau == IF self.learnable THEN Sigmoid(self.w[1])
                   ELSE RDiv(R(1), self.tau[1])
        new == js_single_step_forward(x, inv_tau, out_i)
    IN  [self |-> [self EXCEPT !.out_i = Some(new)], y |-> new]

(***************************************************************************)
(* The modules a recurrent container is built around.  "Identity" is a     *)
(* stateless module without a step_mode attribute and without a reset      *)
(* method; "IFNode" is the integrate-and-fire neuron of the docstrings'    *)
(* examples, IFNode(v_reset=None): threshold 1, soft reset, its membrane   *)
(* potential v registered as 0. (None here); "LinearIF" is the             *)
(* nn.Sequential(nn.Linear(in_features, out_features), neuron) of the      *)
(* LinearRecurrentContainer example, the neuron being that IFNode.  A      *)
(* tensor with a shape is a record of the shape and of the elements by     *)
(* index tuple.                                                            *)
(***************************************************************************)
Idx(shape) ==
    {t \in [1..Len(shape) -> 1..(IF shape = <<>> THEN 0 ELSE
                                  CHOOSE m \in {shape[k] : k \in DOMAIN shape} :
                                      \A k \in DOMAIN shape : shape[k] <= m)] :
        \A k \in DOMAIN shape : t[k] <= shape[k]}

Lead(t) == SubSeq(t, 1, Len(t) - 1)
Last(t) == t[Len(t)]

\* torch.zeros(shape)
Zeros(shape) == [shape |-> shape, data |-> [t \in Idx(shape) |-> 0]]

\* torch.nn.Linear: weight is a sequence of out_features rows, bias None
\* or a row; the random initial values are fixed here, non-zero and of
\* both signs
Linear_init(in_features, out_features, bias) ==
    [in_features |-> in_features, out_features |-> out_features,
     weight |-> [k \in 1..out_features |-> [j \in 1..in_features |->
                    3 * j - 2 * k]],
     bias |-> IF bias THEN Some([k \in 1..out_features |-> 3 - 2 * k]) ELSE None]

Linear_forward(lin, x) ==
    LET shape == Lead(x.shape) \o <<lin.out_features>>
    IN  [shape |-> shape,
         data |-> [t \in Idx(shape) |->
                     SumSeq([j \in 1..lin.in_features |->
                               lin.weight[Last(t)][j]
                                   * x.data[Lead(t) \o <<j>>]])
                         + (IF lin.bias = None THEN 0
                            ELSE lin.bias[1][Last(t)])]]

\* torch.cat((a, b), dim=-1)
Cat(a, b) ==
    LET fa == Last(a.shape)
        shape == Lead(a.shape) \o <<fa + Last(b.shape)>>
    IN  [shape |-> shape,
         data |-> [t \in Idx(shape) |->
                     IF Last(t) <= fa THEN a.data[t]
                     ELSE b.data[Lead(t) \o <<Last(t) - fa>>]]]

SubKinds == {"Identity", "IFNode"}

Sub_init(kind) ==
    [kind |-> kind, v |-> None,
     step_mode |-> IF kind = "Identity" THEN None ELSE Some("s"),
     linear |-> None]

SubLinearIF_init(in_features, out_features) ==
    [kind |-> "LinearIF", v |-> None, step_mode |-> None,
     linear |-> Some(Linear_init(in_features, out_features, TRUE))]

\* the neuron on the elements d of a tensor: charge, fire, soft reset
IFNode_step(v, d) ==
    LET h == [t \in DOMAIN d |-> (IF v = None THEN 0 ELSE v[1][t]) + d[t]]
        spike == [t \in DOMAIN d |-> IF h[t] >= 1 THEN 1 ELSE 0]
    IN  [v |-> Some([t \in DOMAIN d |-> h[t] - spike[t]]), y |-> spike]

\* sub_module(i)
Sub_forward(sub, i) ==
    CASE sub.kind = "Identity" -> [sub |-> sub, y |-> i]
      [] sub.kind = "IFNode" ->
            LET r == IFNode_step(sub.v, i)
            IN  [sub |-> [sub EXCEPT !.v = r.v], y |-> r.y]
      [] sub.kind = "LinearIF" ->
            LET h == Linear_forward(sub.linear[1], i)
                r == IFNode_step(sub.v, h.data)
            IN  [sub |-> [sub EXCEPT !.v = r.v],
                 y |-> [shape |-> h.shape, data |-> r.y]]

Sub_has_reset(sub) == sub.kind # "Identity"
Sub_reset(sub) == [sub EXCEPT !.v = None]

(***************************************************************************)
(* ElementWiseRecurrentContainer.                                          *)
(***************************************************************************)
\* the user's element-wise functions z = f(a, b): lambda x, y: x + y of the
\* docstring, and lambda x, y: x - y, which tells its arguments apart
EWFunctions == {"add", "sub"}
Apply_f(f, a, b) ==
    [q \in DOMAIN a |-> IF f = "add" THEN a[q] + b[q] ELSE a[q] - b[q]]

\* __init__, with its assert on the step mode of the sub_module
ElementWiseRecurrentContainer_init(sub_module, element_wise_function, step_mode) ==
    IF sub_module.step_mode # None /\ sub_module.step_mode # Some("s")
    THEN AssertionError
    ELSE [cls |-> "ElementWiseRecurrentContainer", step_mode |-> step_mode,
          sub_module |-> sub_module,
          element_wise_function |-> element_wise_function, y |-> None]

\* single_step_forward; obs records the arguments the user function is
\* called with and what the sub_module is fed
EWRC_single_step_forward(self, x) ==
    LET y0 == IF self.y = None THEN [q \in DOMAIN x |-> 0] ELSE self.y[1]
        i == Apply_f(self.element_wise_function, y0, x)
        r == Sub_forward(self.sub_module, i)
    IN  [self |-> [self EXCEPT !.y = Some(r.y), !.sub_module = r.sub],
         y |-> r.y,
         obs |-> [f_args |-> <<y0, x>>, sub_in |-> i, y_prev |-> y0]]

(***************************************************************************)
(* LinearRecurrentContainer.                                               *)
(***************************************************************************)
\* __init__, with its assert on the step mode of the sub_module
LinearRecurrentContainer_init(sub_module, in_features, out_features, bias, step_mode) ==
    IF sub_module.step_mode # None /\ sub_module.step_mode # Some("s")
    THEN AssertionError
    ELSE [cls |-> "LinearRecurrentContainer", step_mode |-> step_mode,
          sub_module_out_features |-> out_features,
          rc |-> Linear_init(in_features + out_features, in_features, bias),
          sub_module |-> sub_module, y |-> None]

\* the y = 0 of the first step
LRC_zeros(self, x) ==
    IF Len(x.shape) = 2
    THEN Zeros(<<x.shape[1], self.sub_module_out_features>>)
    ELSE Zeros(<<x.shape[1]>> \o SubSeq(x.shape, 2, Len(x.shape) - 1)
                   \o <<self.sub_module_out_features>>)

\* mutant: the previous output is not fed back
LRC_single_step_forward_no_feedback(self, x) ==
    LET y0 == LRC_zeros(self, x)
        i == Linear_forward(self.rc, Cat(x, y0))
        r == Sub_forward(self.sub_module, i)
    IN  [self |-> [self EXCEPT !.y = Some(r.y), !.sub_module = r.sub],
         y |-> r.y,
         obs |-> [sub_in |-> i, y_prev |-> y0]]

\* single_step_forward; obs records what the sub_module is fed
LRC_single_step_forward(self, x) ==
    LET y0 == IF self.y = None THEN LRC_zeros(self, x) ELSE self.y[1]
        i == Linear_forward(self.rc, Cat(x, y0))
        r == Sub_forward(self.sub_module, i)
    IN  [self |-> [self EXCEPT !.y = Some(r.y), !.sub_module = r.sub],
         y |-> r.y,
         obs |-> [sub_in |-> i, y_prev |-> y0]]

(***************************************************************************)
(* The memory modules that define only single_step_forward, run through    *)
(* MemoryModule.forward in either step mode.                               *)
(***************************************************************************)
Mem_single_step_forward(self, x) ==
    CASE self.cls = "NeuNorm" ->
            LET r == NeuNorm_single_step_forward(self, x)
            IN  [self |-> r.self, y |-> r.y, obs |-> <<>>]
      [] self.cls = "SynapseFilter" ->
            LET r == SynapseFilter_single_step_forward(self, x)
            IN  [self |-> r.self, y |-> r.y, obs |-> <<>>]
      [] self.cls = "ElementWiseRecurrentContainer" ->
            EWRC_single_step_forward(self, x)
      [] self.cls = "LinearRecurrentContainer" ->
            LRC_single_step_forward(self, x)

RECURSIVE multi_step_forward_from(_, _, _, _)
multi_step_forward_from(self, x_seq, t, y_seq) ==
    IF t > Len(x_seq) THEN [self |-> self, y |-> y_seq, obs |-> <<>>]
    ELSE LET r == Mem_single_step_forward(self, x_seq[t])
         IN  multi_step_forward_from(r.self, x_seq, t + 1, Append(y_seq, r.y))

\* mutant: every step starts from the memory the call found
MemoryModule_multi_step_forward_stateless(self, x_seq) ==
    [self |-> Mem_single_step_forward(self, x_seq[Len(x_seq)]).self,
     y |-> [t \in DOMAIN x_seq |-> Mem_single_step_forward(self, x_seq[t]).y],
     obs |-> <<>>]

\* MemoryModule.multi_step_forward: single_step_forward on x_seq[0],
\* x_seq[1], ... in turn, the memory carried from one step to the next,
\* the outputs stacked along the time axis
MemoryModule_multi_step_forward(self, x_seq) ==
    multi_step_forward_from(self, x_seq, 1, <<>>)

\* MemoryModule.forward: the dispatch on step_mode
MemoryModule_forward(self, x) ==
    IF self.step_mode = "s" THEN Mem_single_step_forward(self, x)
    ELSE MemoryModule_multi_step_forward(self, x)

\* the name of the one memory of each of these modules
MemoryOf(self) ==
    CASE self.cls = "NeuNorm" -> self.x
      [] self.cls = "SynapseFilter" -> self.out_i
      [] OTHER -> self.y

\* MemoryModule.reset(): the memory returns to its registered value
MemoryModule_reset(self) ==
    CASE self.cls = "NeuNorm" -> [self EXCEPT !.x = None]
      [] self.cls = "SynapseFilter" -> [self EXCEPT !.out_i = None]
      [] OTHER -> [self EXCEPT !.y = None]

\* functional.reset_net(net): reset() of every module of net that has one
reset_net(self) ==
    LET s1 == MemoryModule_reset(self)
    IN  IF self.cls \in {"ElementWiseRecurrentContainer",
                         "LinearRecurrentContainer"}
           /\ Sub_has_reset(self.sub_module)
        THEN [s1 EXCEPT !.sub_module = Sub_reset(@)]
        ELSE s1

KSet == {[n |-> 1, d |-> 2], [n |-> 9, d |-> 10]}
\* the time constants given to the constructor, two of them not above 1
TauSet == {R(2), [n |-> 5, d |-> 2], R(1), [n |-> 1, d |-> 2]}
FeatureSet == {<<2, 1>>, <<1, 2>>}

\* the sub_modules given to the recurrent containers: those of SubKinds,
\* and a neuron in step mode 'm'
SubModules ==
    {Sub_init(kind) : kind \in SubKinds}
        \cup {[Sub_init("IFNode") EXCEPT !.step_mode = Some("m")]}

\* the sub_modules given to a LinearRecurrentContainer: the Sequential of a
\* Linear and a neuron, which has no step_mode attribute, and a neuron in
\* step mode 'm'
LinearSubModules(io) ==
    {SubLinearIF_init(io[1], io[2]),
     [Sub_init("IFNode") EXCEPT !.step_mode = Some("m")]}

\* the constructions: the class, the contained modules and what results
MemoryConstructions(step_mode) ==
    {[cls |-> "NeuNorm", args |-> <<>>,
      module |-> NeuNorm_init(NumPlanes, k, sh, step_mode)] :
        k \in KSet, sh \in BOOLEAN}
    \cup {[cls |-> "SynapseFilter", args |-> <<>>,
           module |-> SynapseFilter_init(tau, l, step_mode)] :
        tau \in TauSet, l \in BOOLEAN}
    \cup {[cls |-> "ElementWiseRecurrentContainer", args |-> <<sub>>,
           module |-> ElementWiseRecurrentContainer_init(sub, f, step_mode)] :
        sub \in SubModules, f \in EWFunctions}
    \cup UNION {{[cls |-> "LinearRecurrentContainer", args |-> <<sub>>,
                  module |-> LinearRecurrentContainer_init(
                                 sub, io[1], io[2], bias, step_mode)] :
                    sub \in LinearSubModules(io), bias \in BOOLEAN} :
                 io \in FeatureSet}

\* the modules as constructed
MemoryModules(step_mode) ==
    {c.module : c \in MemoryConstructions(step_mode)}

\* the shapes [N, in_features] and [N, 2, in_features] of the inputs of a
\* LinearRecurrentContainer; the other modules take tensors over Pos
ShapesFor(self) ==
    IF self.cls = "LinearRecurrentContainer"
    THEN LET in_features == self.rc.out_features
         IN  {<<N, in_features>> : N \in 1..MaxBatch}
                 \cup {<<N, 2, in_features>> : N \in 1..MaxBatch}
    ELSE {<<>>}

\* the one-step inputs of a module
InputsFor(self, shape) ==
    CASE self.cls \in {"NeuNorm", "SynapseFilter"} -> SpikeSet
      [] self.cls = "ElementWiseRecurrentContainer" -> XSet
      [] self.cls = "LinearRecurrentContainer" ->
            {[shape |-> shape, data |-> [t \in Idx(shape) |-> 1]],
             [shape |-> shape,
              data |-> [t \in Idx(shape) |-> SumSeq(t) - Len(t)]]}

SeqsOf(S, maxlen) == UNION {[1..T -> S] : T \in 1..maxlen}

OpMemForward == "MemoryModule.forward"
OpMemReset == "MemoryModule.reset"
OpResetNet == "functional.reset_net"

MemoryInit ==
    /\ \E step_mode \in {"s", "m"} :
          \E c \in MemoryConstructions(step_mode) :
             /\ layer = c.module
             /\ call = [op |-> "init", cls |-> c.cls, args |-> c.args]
    /\ twin = TwinIdle
    /\ \E shape \in ShapesFor(layer) : sim = [SimIdle EXCEPT !.shape = shape]

MemoryForward ==
    /\ layer.cls \in {"NeuNorm", "SynapseFilter",
                      "ElementWiseRecurrentContainer",
                      "LinearRecurrentContainer"}
    /\ \E x \in IF layer.step_mode = "s" THEN InputsFor(layer, sim.shape)
                ELSE SeqsOf(InputsFor(layer, sim.shape), MaxT) :
          LET T == IF layer.step_mode = "s" THEN 1 ELSE Len(x)
              res == MemoryModule_forward(layer, x)
          IN  /\ sim.steps + T <= MaxSteps
              /\ layer' = res.self
              /\ sim' = [sim EXCEPT !.steps = @ + T]
              /\ call' = [op |-> OpMemForward, mode |-> layer.step_mode,
                          x |-> x, y |-> res.y, obs |-> res.obs]
    /\ UNCHANGED twin

MemoryReset ==
    /\ layer.cls \in {"NeuNorm", "SynapseFilter",
                      "ElementWiseRecurrentContainer",
                      "LinearRecurrentContainer"}
    /\ layer' = MemoryModule_reset(layer)
    /\ call' = [op |-> OpMemReset]
    /\ UNCHANGED <<twin, sim>>

MemoryResetNet ==
    /\ layer.cls \in {"NeuNorm", "SynapseFilter",
                      "ElementWiseRecurrentContainer",
                      "LinearRecurrentContainer"}
    /\ layer' = reset_net(layer)
    /\ call' = [op |-> OpResetNet]
    /\ UNCHANGED <<twin, sim>>

MemoryNext ==
    \/ MemoryForward
    \/ MemoryReset
    \/ MemoryResetNet

SpecMemory == MemoryInit /\ [][MemoryNext]_vars

(***************************************************************************)
(* Two memory modules built alike and brought to the same memory state by  *)
(* the same forward steps, one in step mode 's', its twin in step mode     *)
(* 'm'.  Then `layer` is fed x_seq[0], x_seq[1], ... by single-step        *)
(* forwards and `twin` is fed x_seq by one multi-step forward.             *)
(***************************************************************************)
MemoryEqInit ==
    /\ layer \in {m \in MemoryModules("s") : m # AssertionError}
    /\ twin = [layer EXCEPT !.step_mode = "m"]
    /\ \E shape \in ShapesFor(layer) :
       \E x_seq \in SeqsOf(InputsFor(layer, shape), MaxT) :
          sim = [SimIdle EXCEPT !.shape = shape, !.x_seq = x_seq]
    /\ call = [op |-> "init"]

\* one step fed to both modules before the comparison starts
MemoryEqWarm ==
    /\ sim.t = 0 /\ ~sim.done
    /\ sim.steps + Len(sim.x_seq) < MaxSteps
    /\ \E x \in InputsFor(layer, sim.shape) :
          /\ layer' = MemoryModule_forward(layer, x).self
          /\ twin' = MemoryModule_forward(twin, <<x>>).self
    /\ sim' = [sim EXCEPT !.steps = @ + 1]
    /\ call' = [op |-> OpMemForward]

MemoryEqSingleStep ==
    /\ sim.t < Len(sim.x_seq)
    /\ LET res == MemoryModule_forward(layer, sim.x_seq[sim.t + 1])
       IN  /\ layer' = res.self
           /\ sim' = [sim EXCEPT !.t = @ + 1, !.y_seq = Append(@, res.y)]
    /\ call' = [op |-> OpMemForward]
    /\ UNCHANGED twin

MemoryEqMultiStep ==
    /\ ~sim.done
    /\ LET res == MemoryModule_forward(twin, sim.x_seq)
       IN  /\ twin' = res.self
           /\ sim' = [sim EXCEPT !.done = TRUE, !.twin_y = res.y]
    /\ call' = [op |-> OpMemForward]
    /\ UNCHANGED layer

MemoryEqNext ==
    \/ MemoryEqWarm
    \/ MemoryEqSingleStep
    \/ MemoryEqMultiStep

SpecMemoryEq == MemoryEqInit /\ [][MemoryEqNext]_vars

(***************************************************************************)
(* Claims on the memory modules.                                           *)
(***************************************************************************)
\* C4: for NeuNorm, SynapseFilter and the two recurrent containers, from
\* the same memory state the multi-step forward on x_seq returns at every
\* t the output of the t-th of the single-step forwards on x_seq[0..T-1],
\* and after the T steps both modules hold the same memory.
C4_MultiStepRefinesSingleSteps ==
    /\ sim.done => \A t \in 1..sim.t : sim.y_seq[t] = sim.twin_y[t]
    /\ (sim.done /\ sim.t = Len(sim.x_seq))
          => /\ Len(sim.twin_y) = Len(sim.x_seq)
             /\ [twin EXCEPT !.step_mode = "s"] = layer

\* both runs done on MaxT differing steps from a memory state that is not
\* the reset one, the last output depending on the memory
C4_Witness ==
    /\ layer.cls = "ElementWiseRecurrentContainer"
    /\ sim.done /\ sim.t = Len(sim.x_seq) /\ Len(sim.x_seq) = MaxT
    /\ sim.steps > 0
    /\ sim.x_seq[1] # sim.x_seq[MaxT]
    /\ sim.twin_y[MaxT]
          # Mem_single_step_forward(MemoryModule_reset(layer),
                                    sim.x_seq[MaxT]).y

MemSingleFwd(self, c) == c.op = OpMemForward /\ c.mode = "s"

\* C9: at every single-step forward of an ElementWiseRecurrentContainer the
\* user function is called with the input x[t] first and the previous
\* output y[t-1] second, y[-1] being zeros of the shape of x after
\* construction or reset; the sub_module is fed f(x[t], y[t-1]) and its
\* output is returned and kept as y[t].
C9_ElementWiseFeedback ==
    [][(layer.cls = "ElementWiseRecurrentContainer"
          /\ MemSingleFwd(layer, call'))
         => LET x == call'.x
                y_prev == IF layer.y = None THEN [q \in DOMAIN x |-> 0]
                          ELSE layer.y[1]
                i == Apply_f(layer.element_wise_function, x, y_prev)
            IN  /\ call'.obs.f_args = <<x, y_prev>>
                /\ call'.obs.sub_in = i
                /\ call'.y = Sub_forward(layer.sub_module, i).y
                /\ layer'.y = Some(call'.y)]_vars

\* x[t] W^T restricted to the columns of x, plus y[t-1] W^T restricted to
\* the columns of y, plus b
LinearOfConcat(rc, x, y_prev) ==
    LET nx == Last(x.shape)
        ny == Last(y_prev.shape)
        shape == Lead(x.shape) \o <<rc.out_features>>
    IN  [shape |-> shape,
         data |-> [t \in Idx(shape) |->
                     SumSeq([j \in 1..nx |->
                               rc.weight[Last(t)][j] * x.data[Lead(t) \o <<j>>]])
                     + SumSeq([j \in 1..ny |->
                               rc.weight[Last(t)][nx + j]
                                   * y_prev.data[Lead(t) \o <<j>>]])
                     + (IF rc.bias = None THEN 0 ELSE rc.bias[1][Last(t)])]]

\* C10: at every single-step forward of a LinearRecurrentContainer on x[t]
\* of shape [N, *, in_features] the sub_module is fed
\* concat(x[t], y[t-1]) W^T + b, y[-1] being zeros of shape
\* [N, *, out_features] after construction or reset, and the output, which
\* is also kept as y[t], has shape [N, *, out_features].
C10_LinearFeedback ==
    [][(layer.cls = "LinearRecurrentContainer" /\ MemSingleFwd(layer, call'))
         => LET x == call'.x
                out_shape == Lead(x.shape)
                                 \o <<layer.sub_module_out_features>>
                y_prev == IF layer.y = None THEN Zeros(out_shape)
                          ELSE layer.y[1]
            IN  /\ call'.obs.sub_in = LinearOfConcat(layer.rc, x, y_prev)
                /\ call'.y.shape = out_shape
                /\ DOMAIN call'.y.data = Idx(out_shape)
                /\ layer'.y = Some(call'.y)]_vars

\* a single-step forward on a [N, 2, in_features] input that fed back a
\* previous output with a spike and returned out_features = 2 features
C10_Witness ==
    /\ layer.cls = "LinearRecurrentContainer"
    /\ MemSingleFwd(layer, call)
    /\ Len(call.x.shape) = 3
    /\ layer.sub_module_out_features = 2
    /\ \E t \in DOMAIN call.obs.y_prev.data : call.obs.y_prev.data[t] = 1
    /\ call.y.shape = <<call.x.shape[1], call.x.shape[2], 2>>

(***************************************************************************)
(* The stateless wrappers: Conv2d, BatchNorm2d, GroupNorm, MaxPool2d,      *)
(* AvgPool2d, AdaptiveAvgPool2d, Linear, Flatten and VotingLayer.  Each    *)
(* inherits the operation of a library class and adds step_mode.  The      *)
(* library operations are modelled on tensors with a shape by what they    *)
(* accept, the shape they return and the elements they compute; the two    *)
(* normalisations, whose values involve a square root, return for every    *)
(* element the value and the bag of values it is normalised over.          *)
(***************************************************************************)
\* the batch size N of the inputs of the wrappers and containers
NumSamples == 2

RECURSIVE Prod(_)
Prod(s) == IF s = <<>> THEN 1 ELSE s[1] * Prod(Tail(s))

\* the rank of index u in row-major order, from 0, and its inverse
RECURSIVE Ravel(_, _)
Ravel(u, shape) ==
    IF u = <<>> THEN 0
    ELSE (u[1] - 1) * Prod(Tail(shape)) + Ravel(Tail(u), Tail(shape))

RECURSIVE Unravel(_, _)
Unravel(k, shape) ==
    IF shape = <<>> THEN <<>>
    ELSE <<(k \div Prod(Tail(shape))) + 1>>
             \o Unravel(k % Prod(Tail(shape)), Tail(shape))

Tensor(shape, data) == [shape |-> shape, data |-> data]

\* a call that raised
Raised(self, error, calls) ==
    [self |-> self, y |-> None, err |-> Some(error), calls |-> calls]
Returned(self, y, calls) ==
    [self |-> self, y |-> Some(y), err |-> None, calls |-> calls]

\* x_seq.flatten(0, 1)
Flatten01(x_seq) ==
    LET N == x_seq.shape[2]
        shape == <<x_seq.shape[1] * N>> \o SubSeq(x_seq.shape, 3, Len(x_seq.shape))
    IN  Tensor(shape,
               [u \in Idx(shape) |->
                   x_seq.data[<<((u[1] - 1) \div N) + 1, ((u[1] - 1) % N) + 1>>
                                  \o Tail(u)]])

\* x_seq[t]
Select(x_seq, t) ==
    LET shape == Tail(x_seq.shape)
    IN  Tensor(shape, [u \in Idx(shape) |-> x_seq.data[<<t>> \o u]])

\* torch.cat of y_seq[t].unsqueeze(0) over t
Stack(y_seq) ==
    LET shape == <<Len(y_seq)>> \o y_seq[1].shape
    IN  Tensor(shape, [u \in Idx(shape) |-> y_seq[u[1]].data[Tail(u)]])

\* the bag of the values of x at the indices in S
BagOf(x, S) ==
    [v \in {x.data[u] : u \in S} |-> Cardinality({u \in S : x.data[u] = v})]

Max(a, b) == IF a >= b THEN a ELSE b
\* y.view(shape): the elements of y in row-major order under a new shape
View(y, shape) ==
    Tensor(shape, [u \in Idx(shape) |-> y.data[Unravel(Ravel(u, shape), y.shape)]])

\* the library's operations ------------------------------------------------

\* nn.Conv2d.forward with kernel_size = 1: input [N, C, H, W] or [C, H, W]
nn_Conv2d_forward(self, x) ==
    LET d == Len(x.shape)
    IN  IF d \notin {3, 4} \/ x.shape[d - 2] # self.in_channels
        THEN Raised(self, "RuntimeError", <<x.shape>>)
        ELSE LET shape == [x.shape EXCEPT ![d - 2] = self.out_channels]
             IN  Returned(self,
                     Tensor(shape, [u \in Idx(shape) |->
                         SumSeq([c \in 1..self.in_channels |->
                                   self.weight[u[d - 2]][c]
                                       * x.data[[u EXCEPT ![d - 2] = c]]])
                             + (IF self.bias = None THEN 0
                                ELSE self.bias[1][u[d - 2]])]),
                     <<x.shape>>)

\* nn.BatchNorm2d.forward in training mode: input [N, C, H, W] only; every
\* element is normalised over the values of its channel in the whole batch
nn_BatchNorm2d_forward(self, x) ==
    IF Len(x.shape) # 4 THEN Raised(self, "ValueError", <<x.shape>>)
    ELSE IF x.shape[2] # self.num_features
    THEN Raised(self, "RuntimeError", <<x.shape>>)
    ELSE Returned([self EXCEPT !.num_batches_tracked = @ + 1],
             Tensor(x.shape, [u \in Idx(x.shape) |->
                 [v |-> x.data[u],
                  over |-> BagOf(x, {w \in Idx(x.shape) : w[2] = u[2]})]]),
             <<x.shape>>)

\* nn.GroupNorm.forward with num_groups = 1: input [N, C, *]; every element
\* is normalised over the values of its sample
nn_GroupNorm_forward(self, x) ==
    IF Len(x.shape) < 2 \/ x.shape[2] # self.num_channels
    THEN Raised(self, "RuntimeError", <<x.shape>>)
    ELSE Returned(self,
             Tensor(x.shape, [u \in Idx(x.shape) |->
                 [v |-> x.data[u],
                  over |-> BagOf(x, {w \in Idx(x.shape) : w[1] = u[1]})]]),
             <<x.shape>>)

\* the output width of a pooling of kernel and stride 2 along the last axis
PoolOut(width) == ((width - 2) \div 2) + 1

\* nn.MaxPool2d.forward with kernel_size = (1, 2): input [N, C, H, W] or
\* [C, H, W]
nn_MaxPool2d_forward(self, x) ==
    IF Len(x.shape) \notin {3, 4} \/ Last(x.shape) < 2
    THEN Raised(self, "RuntimeError", <<x.shape>>)
    ELSE LET shape == Lead(x.shape) \o <<PoolOut(Last(x.shape))>>
         IN  Returned(self,
                 Tensor(shape, [u \in Idx(shape) |->
                     Max(x.data[Lead(u) \o <<2 * Last(u) - 1>>],
                         x.data[Lead(u) \o <<2 * Last(u)>>])]),
                 <<x.shape>>)

\* nn.AvgPool2d.forward with kernel_size = (1, 2)
nn_AvgPool2d_forward(self, x) ==
    IF Len(x.shape) \notin {3, 4} \/ Last(x.shape) < 2
    THEN Raised(self, "RuntimeError", <<x.shape>>)
    ELSE LET shape == Lead(x.shape) \o <<PoolOut(Last(x.shape))>>
         IN  Returned(self,
                 Tensor(shape, [u \in Idx(shape) |->
                     RNorm(x.data[Lead(u) \o <<2 * Last(u) - 1>>]
                               + x.data[Lead(u) \o <<2 * Last(u)>>], 2)]),
                 <<x.shape>>)

\* nn.AdaptiveAvgPool2d.forward with output_size = 1: the mean over [H, W]
nn_AdaptiveAvgPool2d_forward(self, x) ==
    LET d == Len(x.shape)
    IN  IF d \notin {3, 4} THEN Raised(self, "RuntimeError", <<x.shape>>)
        ELSE LET shape == SubSeq(x.shape, 1, d - 2) \o <<1, 1>>
                 hw == <<x.shape[d - 1], x.shape[d]>>
             IN  Returned(self,
                     Tensor(shape, [u \in Idx(shape) |->
                         RNorm(SumSeq([k \in 1..Prod(hw) |->
                                   x.data[SubSeq(u, 1, d - 2)
                                              \o Unravel(k - 1, hw)]]),
                               Prod(hw))]),
                     <<x.shape>>)

\* nn.Linear.forward: the linear map along the last axis of any input
nn_Linear_forward(self, x) ==
    IF Last(x.shape) # self.in_features
    THEN Raised(self, "RuntimeError", <<x.shape>>)
    ELSE Returned(self, Linear_forward(self, x), <<x.shape>>)

\* nn.Flatten.forward with start_dim = 1, end_dim = -1
nn_Flatten_forward(self, x) ==
    IF Len(x.shape) < 2 THEN Raised(self, "IndexError", <<x.shape>>)
    ELSE LET rest == Tail(x.shape)
             shape == <<x.shape[1], Prod(rest)>>
         IN  Returned(self,
                 Tensor(shape, [u \in Idx(shape) |->
                     x.data[<<u[1]>> \o Unravel(u[2] - 1, rest)]]),
                 <<x.shape>>)

\* VotingLayer.single_step_forward with voting_size = 2: average pooling
\* along the last axis of an input [N, C * voting_size]
VotingLayer_single_step_forward(self, x) ==
    IF Len(x.shape) # 2 \/ x.shape[2] < self.voting_size
    THEN Raised(self, "RuntimeError", <<x.shape>>)
    ELSE LET shape == <<x.shape[1], PoolOut(x.shape[2])>>
         IN  Returned(self,
                 Tensor(shape, [u \in Idx(shape) |->
                     RNorm(x.data[<<u[1], 2 * u[2] - 1>>]
                               + x.data[<<u[1], 2 * u[2]>>], 2)]),
                 <<x.shape>>)

\* functional.seq_to_ann_forward(x_seq, stateless_module): the module is
\* applied once to x_seq with its axes 0 and 1 merged, and the result is
\* viewed as [T, N] + y.shape[1:]; r is the outcome of
\* stateless_module(x_seq.flatten(0, 1))
seq_to_ann_forward(self, x_seq, r) ==
    IF Len(x_seq.shape) < 2 THEN Raised(self, "IndexError", <<>>)
    ELSE IF r.err # None THEN r
             ELSE LET y == r.y[1]
                      y_shape == <<x_seq.shape[1], x_seq.shape[2]>>
                                     \o Tail(y.shape)
                  IN  IF Prod(y_shape) # Prod(y.shape)
                      THEN Raised(r.self, "RuntimeError", r.calls)
                      ELSE Returned(r.self, View(y, y_shape), r.calls)

\* the wrappers -------------------------------------------------------------

Conv2d_init(in_channels, out_channels, bias, step_mode) ==
    [cls |-> "Conv2d", step_mode |-> step_mode, in_channels |-> in_channels,
     out_channels |-> out_channels,
     weight |-> [o \in 1..out_channels |-> [c \in 1..in_channels |->
                    2 * o - c]],
     bias |-> IF bias THEN Some([o \in 1..out_channels |-> o]) ELSE None]

\* mutant: the number of dimensions is not checked
Conv2d_forward_unchecked(self, x) ==
    IF self.step_mode = "s" THEN nn_Conv2d_forward(self, x)
    ELSE seq_to_ann_forward(self, x, nn_Conv2d_forward(self, Flatten01(x)))

Conv2d_forward(self, x) ==
    IF self.step_mode = "s" THEN nn_Conv2d_forward(self, x)
    ELSE IF Len(x.shape) # 5 THEN Raised(self, "ValueError", <<>>)
    ELSE seq_to_ann_forward(self, x, nn_Conv2d_forward(self, Flatten01(x)))

BatchNorm2d_init(num_features, step_mode) ==
    [cls |-> "BatchNorm2d", step_mode |-> step_mode,
     num_features |-> num_features, num_batches_tracked |-> 0]

BatchNorm2d_forward(self, x) ==
    IF self.step_mode = "s" THEN nn_BatchNorm2d_forward(self, x)
    ELSE IF Len(x.shape) # 5 THEN Raised(self, "ValueError", <<>>)
    ELSE seq_to_ann_forward(self, x, nn_BatchNorm2d_forward(self, Flatten01(x)))

GroupNorm_init(num_groups, num_channels, step_mode) ==
    [cls |-> "GroupNorm", step_mode |-> step_mode, num_groups |-> num_groups,
     num_channels |-> num_channels]

GroupNorm_forward(self, x) ==
    IF self.step_mode = "s" THEN nn_GroupNorm_forward(self, x)
    ELSE seq_to_ann_forward(self, x, nn_GroupNorm_forward(self, Flatten01(x)))

MaxPool2d_init(kernel_size, step_mode) ==
    [cls |-> "MaxPool2d", step_mode |-> step_mode, kernel_size |-> kernel_size]

MaxPool2d_forward(self, x) ==
    IF self.step_mode = "s" THEN nn_MaxPool2d_forward(self, x)
    ELSE IF Len(x.shape) # 5 THEN Raised(self, "ValueError", <<>>)
    ELSE seq_to_ann_forward(self, x, nn_MaxPool2d_forward(self, Flatten01(x)))

AvgPool2d_init(kernel_size, step_mode) ==
    [cls |-> "AvgPool2d", step_mode |-> step_mode, kernel_size |-> kernel_size]

AvgPool2d_forward(self, x) ==
    IF self.step_mode = "s" THEN nn_AvgPool2d_forward(self, x)
    ELSE IF Len(x.shape) # 5 THEN Raised(self, "ValueError", <<>>)
    ELSE seq_to_ann_forward(self, x, nn_AvgPool2d_forward(self, Flatten01(x)))

AdaptiveAvgPool2d_init(output_size, step_mode) ==
    [cls |-> "AdaptiveAvgPool2d", step_mode |-> step_mode,
     output_size |-> output_size]

AdaptiveAvgPool2d_forward(self, x) ==
    IF self.step_mode = "s" THEN nn_AdaptiveAvgPool2d_forward(self, x)
    ELSE IF Len(x.shape) # 5 THEN Raised(self, "ValueError", <<>>)
    ELSE seq_to_ann_forward(self, x, nn_AdaptiveAvgPool2d_forward(self, Flatten01(x)))

\* Linear.__init__; the class defines no forward
layer_Linear_init(in_features, out_features, bias, step_mode) ==
    [cls |-> "Linear", step_mode |-> step_mode]
        @@ Linear_init(in_features, out_features, bias)

\* mutant: Linear dispatches on step_mode as the other wrappers do
layer_Linear_forward_dispatch(self, x) ==
    IF self.step_mode = "s" THEN nn_Linear_forward(self, x)
    ELSE seq_to_ann_forward(self, x, nn_Linear_forward(self, Flatten01(x)))

\* the forward a Linear answers to: the inherited nn.Linear.forward
layer_Linear_forward(self, x) == nn_Linear_forward(self, x)

Flatten_init(start_dim, end_dim, step_mode) ==
    [cls |-> "Flatten", step_mode |-> step_mode, start_dim |-> start_dim,
     end_dim |-> end_dim]

\* mutant: in step mode 'm' the operation is applied to every x_seq[t]
Flatten_forward_stepwise(self, x) ==
    IF self.step_mode = "s" THEN nn_Flatten_forward(self, x)
    ELSE LET r == [t \in 1..x.shape[1] |->
                      nn_Flatten_forward(self, Select(x, t))]
             calls == [t \in 1..x.shape[1] |-> r[t].calls[1]]
         IN  IF \E t \in 1..x.shape[1] : r[t].err # None
             THEN Raised(self, "IndexError", calls)
             ELSE Returned(self, Stack([t \in 1..x.shape[1] |-> r[t].y[1]]),
                           calls)

Flatten_forward(self, x) ==
    IF self.step_mode = "s" THEN nn_Flatten_forward(self, x)
    ELSE seq_to_ann_forward(self, x, nn_Flatten_forward(self, Flatten01(x)))

VotingLayer_init(voting_size, step_mode) ==
    [cls |-> "VotingLayer", step_mode |-> step_mode,
     voting_size |-> voting_size]

VotingLayer_forward(self, x) ==
    IF self.step_mode = "s" THEN VotingLayer_single_step_forward(self, x)
    ELSE seq_to_ann_forward(self, x, VotingLayer_single_step_forward(self, Flatten01(x)))

WrapperClasses ==
    {"Conv2d", "BatchNorm2d", "GroupNorm", "MaxPool2d", "AvgPool2d",
     "AdaptiveAvgPool2d", "Linear", "Flatten", "VotingLayer"}

\* module(x)
Wrapper_forward(self, x) ==
    CASE self.cls = "Conv2d" -> Conv2d_forward(self, x)
      [] self.cls = "BatchNorm2d" -> BatchNorm2d_forward(self, x)
      [] self.cls = "GroupNorm" -> GroupNorm_forward(self, x)
      [] self.cls = "MaxPool2d" -> MaxPool2d_forward(self, x)
      [] self.cls = "AvgPool2d" -> AvgPool2d_forward(self, x)
      [] self.cls = "AdaptiveAvgPool2d" -> AdaptiveAvgPool2d_forward(self, x)
      [] self.cls = "Linear" -> layer_Linear_forward(self, x)
      [] self.cls = "Flatten" -> Flatten_forward(self, x)
      [] self.cls = "VotingLayer" -> VotingLayer_forward(self, x)

\* the operation a wrapper wraps
Wrapped_forward(self, x) ==
    CASE self.cls = "Conv2d" -> nn_Conv2d_forward(self, x)
      [] self.cls = "BatchNorm2d" -> nn_BatchNorm2d_forward(self, x)
      [] self.cls = "GroupNorm" -> nn_GroupNorm_forward(self, x)
      [] self.cls = "MaxPool2d" -> nn_MaxPool2d_forward(self, x)
      [] self.cls = "AvgPool2d" -> nn_AvgPool2d_forward(self, x)
      [] self.cls = "AdaptiveAvgPool2d" -> nn_AdaptiveAvgPool2d_forward(self, x)
      [] self.cls = "Linear" -> nn_Linear_forward(self, x)
      [] self.cls = "Flatten" -> nn_Flatten_forward(self, x)
      [] self.cls = "VotingLayer" -> VotingLayer_single_step_forward(self, x)

\* the wrappers as constructed
Wrappers(step_mode) ==
    {Conv2d_init(NumPlanes, oc, b, step_mode) : oc \in {1, 2}, b \in BOOLEAN}
    \cup {BatchNorm2d_init(NumPlanes, step_mode),
          GroupNorm_init(1, NumPlanes, step_mode),
          MaxPool2d_init(<<1, 2>>, step_mode),
          AvgPool2d_init(<<1, 2>>, step_mode),
          AdaptiveAvgPool2d_init(1, step_mode),
          layer_Linear_init(NumPixels, 2, TRUE, step_mode),
          Flatten_init(1, -1, step_mode),
          VotingLayer_init(2, step_mode)}

\* the shapes of the inputs: of 2 to 6 dimensions, [N, C, H, W] and
\* [T, N, C, H, W] among them, and [N, L] and [T, N, L]
WrapperShapes ==
    LET full == <<1, MaxT, NumSamples, NumPlanes, 1, NumPixels>>
    IN  {SubSeq(full, 7 - d, 6) : d \in 2..6}
            \cup {<<MaxT, NumSamples, NumPixels>>, <<NumSamples, NumPixels>>}

\* the inputs: elements that all differ, and elements of both signs
WrapperInputs ==
    UNION {{Tensor(shape, [u \in Idx(shape) |-> Ravel(u, shape)]),
            Tensor(shape, [u \in Idx(shape) |->
                      ((Ravel(u, shape) * Ravel(u, shape)) % 5) - 2])} :
           shape \in WrapperShapes}

OpWrapperForward == "forward"
OpSetStepMode == "step_mode.setter"

WrapperInit ==
    /\ \E step_mode \in {"s", "m"} : layer \in Wrappers(step_mode)
    /\ twin = TwinIdle
    /\ sim = SimIdle
    /\ call = [op |-> "init"]

WrapperForward ==
    /\ layer.cls \in WrapperClasses
    /\ sim.steps < MaxSteps
    /\ \E x \in WrapperInputs :
          LET res == Wrapper_forward(layer, x)
          IN  /\ layer' = res.self
              /\ call' = [op |-> OpWrapperForward, mode |-> layer.step_mode,
                          x |-> x, y |-> res.y, err |-> res.err,
                          calls |-> res.calls]
    /\ sim' = [sim EXCEPT !.steps = @ + 1]
    /\ UNCHANGED twin

\* module.step_mode = value
WrapperSetStepMode ==
    /\ layer.cls \in WrapperClasses
    /\ \E value \in {"s", "m"} :
          /\ layer' = [layer EXCEPT !.step_mode = value]
          /\ call' = [op |-> OpSetStepMode, value |-> value]
    /\ UNCHANGED <<twin, sim>>

(***************************************************************************)
(* TemporalWiseAttention.  The score sigmoid(avgout + maxout) is kept as   *)
(* the number avgout + maxout it is the sigmoid of, and an output element  *)
(* as the input element and the score it is multiplied by.                 *)
(***************************************************************************)
\* T // reduction with reduction = 0
ZeroDivisionError == [cls |-> "ZeroDivisionError"]

\* __init__, with its asserts on dimension and on T >= reduction; the
\* random initial weights of the two bias-free Linear layers are fixed here
TemporalWiseAttention_init(T, reduction, dimension) ==
    IF dimension # 4 /\ dimension # 2 THEN AssertionError
    ELSE IF ~(T >= reduction) THEN AssertionError
    ELSE IF reduction = 0 THEN ZeroDivisionError
    ELSE [cls |-> "TemporalWiseAttention", step_mode |-> "m",
          dimension |-> dimension, T |-> T,
          fc1 |-> [h \in 1..(T \div reduction) |-> [t \in 1..T |->
                      2 * t - h]],
          fc2 |-> [t \in 1..T |-> [h \in 1..(T \div reduction) |->
                      t + h - 2]]]

\* the indices of x_seq[t, n]
SliceOf(x_seq, t, n) == {u \in Idx(x_seq.shape) : u[1] = t /\ u[2] = n}

\* self.avg_pool(x_seq).view([N, T]) and self.max_pool(x_seq).view([N, T])
\* for the transposed x_seq: the mean and the maximum of every x_seq[t, n]
TWA_avg_pool(x_seq) ==
    [n \in 1..x_seq.shape[2] |-> [t \in 1..x_seq.shape[1] |->
        LET S == SliceOf(x_seq, t, n)
        IN  RNorm(SumSeq([k \in 1..Cardinality(S) |->
                      x_seq.data[<<t, n>> \o Unravel(k - 1,
                          SubSeq(x_seq.shape, 3, Len(x_seq.shape)))]]),
                  Cardinality(S))]]

TWA_max_pool(x_seq) ==
    [n \in 1..x_seq.shape[2] |-> [t \in 1..x_seq.shape[1] |->
        LET V == {x_seq.data[u] : u \in SliceOf(x_seq, t, n)}
        IN  R(CHOOSE m \in V : \A v \in V : v <= m)]]

\* self.sharedMLP(v) for one sample: Linear, ReLU, Linear along the T axis
TWA_sharedMLP(self, v) ==
    LET hidden == [h \in DOMAIN self.fc1 |->
                      LET a == RSumSeq([t \in 1..self.T |->
                                   RMul(R(self.fc1[h][t]), v[t])])
                      IN  IF RLess(a, R(0)) THEN R(0) ELSE a]
    IN  [t \in 1..self.T |->
            RSumSeq([h \in DOMAIN self.fc1 |->
                        RMul(R(self.fc2[t][h]), hidden[h])])]

\* scores before the sigmoid, [N, T]
TWA_scores(self, x_seq) ==
    LET avg == TWA_avg_pool(x_seq)
        max == TWA_max_pool(x_seq)
    IN  [n \in 1..x_seq.shape[2] |->
            LET a == TWA_sharedMLP(self, avg[n])
                m == TWA_sharedMLP(self, max[n])
            IN  [t \in 1..self.T |-> RAdd(a[t], m[t])]]

\* mutant: the scores are broadcast along the last axis of x_seq
TemporalWiseAttention_forward_trailing(self, x_seq) ==
    LET d == Len(x_seq.shape)
    IN  IF d # 3 /\ d # 5 THEN Raised(self, "AssertionError", <<>>)
        ELSE IF d # self.dimension + 1 \/ x_seq.shape[1] # self.T
        THEN Raised(self, "RuntimeError", <<x_seq.shape>>)
        ELSE LET scores == TWA_scores(self, x_seq)
             IN  Returned(self,
                     Tensor(x_seq.shape, [u \in Idx(x_seq.shape) |->
                         [x |-> x_seq.data[u],
                          score |-> [sigmoid |->
                              scores[u[2]][((u[d] - 1) % self.T) + 1]]]]),
                     <<x_seq.shape>>)

TemporalWiseAttention_forward(self, x_seq) ==
    LET d == Len(x_seq.shape)
    IN  IF d # 3 /\ d # 5 THEN Raised(self, "AssertionError", <<>>)
        ELSE IF d # self.dimension + 1 \/ x_seq.shape[1] # self.T
        THEN Raised(self, "RuntimeError", <<x_seq.shape>>)
        ELSE LET scores == TWA_scores(self, x_seq)
             IN  Returned(self,
                     Tensor(x_seq.shape, [u \in Idx(x_seq.shape) |->
                         [x |-> x_seq.data[u],
                          score |-> [sigmoid |-> scores[u[2]][u[1]]]]]),
                     <<x_seq.shape>>)

\* the constructions: the arguments and what results
AttentionConstructions ==
    {[cls |-> "TemporalWiseAttention",
      args |-> [T |-> T, reduction |-> reduction, dimension |-> dimension],
      module |-> TemporalWiseAttention_init(T, reduction, dimension)] :
        T \in 1..MaxT, reduction \in 0..(MaxT + 1), dimension \in 2..4}

AttentionInit ==
    /\ \E c \in AttentionConstructions :
          /\ layer = c.module
          /\ call = [op |-> "init", cls |-> c.cls, args |-> c.args]
    /\ twin = TwinIdle
    /\ sim = SimIdle

AttentionForward ==
    /\ layer.cls = "TemporalWiseAttention"
    /\ sim.steps < MaxSteps
    /\ \E x \in WrapperInputs :
          LET res == TemporalWiseAttention_forward(layer, x)
          IN  /\ layer' = res.self
              /\ call' = [op |-> OpWrapperForward, mode |-> layer.step_mode,
                          x |-> x, y |-> res.y, err |-> res.err,
                          calls |-> res.calls]
    /\ sim' = [sim EXCEPT !.steps = @ + 1]
    /\ UNCHANGED twin

WrapperNext ==
    \/ WrapperForward
    \/ WrapperSetStepMode
    \/ AttentionForward

SpecWrapper == (WrapperInit \/ AttentionInit) /\ [][WrapperNext]_vars

(***************************************************************************)
(* The containers MultiStepContainer, SeqToANNContainer and                *)
(* StepModeContainer: an nn.Sequential of modules, each without a          *)
(* step_mode attribute (nn.Identity, nn.Linear) or with one (a neuron).    *)
(***************************************************************************)
\* neuron.IFNode(v_reset=None, step_mode=step_mode)
IFNode_init(step_mode) ==
    [Sub_init("IFNode") EXCEPT !.step_mode = Some(step_mode)]

\* nn.Linear(in_features, out_features) as a contained module
SubLinear_init(in_features, out_features) ==
    [kind |-> "Linear", v |-> None, step_mode |-> None,
     linear |-> Some(Linear_init(in_features, out_features, TRUE))]

\* m(x) for a contained module m in step mode 's' and a tensor x
Module_forward(m, x) ==
    CASE m.kind = "Identity" -> [sub |-> m, y |-> Some(x), err |-> None]
      [] m.kind = "Linear" ->
            IF Last(x.shape) # m.linear[1].in_features
            THEN [sub |-> m, y |-> None, err |-> Some("RuntimeError")]
            ELSE [sub |-> m, y |-> Some(Linear_forward(m.linear[1], x)),
                  err |-> None]
      [] m.kind = "IFNode" ->
            IF m.v # None /\ DOMAIN m.v[1] # DOMAIN x.data
            THEN [sub |-> m, y |-> None, err |-> Some("RuntimeError")]
            ELSE LET r == IFNode_step(m.v, x.data)
                 IN  [sub |-> [m EXCEPT !.v = r.v],
                      y |-> Some(Tensor(x.shape, r.y)), err |-> None]

\* nn.Sequential.forward from the k-th module on
RECURSIVE Sequential_from(_, _, _)
Sequential_from(mods, k, x) ==
    IF k > Len(mods) THEN [mods |-> mods, y |-> Some(x), err |-> None]
    ELSE LET r == Module_forward(mods[k], x)
         IN  IF r.err # None THEN [mods |-> mods, y |-> None, err |-> r.err]
             ELSE Sequential_from([mods EXCEPT ![k] = r.sub], k + 1, r.y[1])

\* super().forward(x) of a container: nn.Sequential.forward
Sequential_forward(self, x) ==
    LET r == Sequential_from(self.mods, 1, x)
    IN  [self |-> [self EXCEPT !.mods = r.mods], y |-> r.y, err |-> r.err,
         calls |-> <<x>>]

\* functional.multi_step_forward(x_seq, super().forward): the module is
\* applied to x_seq[0], x_seq[1], ... in turn and the outputs are stacked
RECURSIVE functional_multi_step_from(_, _, _, _, _)
functional_multi_step_from(self, x_seq, t, y_seq, calls) ==
    IF t > x_seq.shape[1] THEN Returned(self, Stack(y_seq), calls)
    ELSE LET r == Sequential_forward(self, Select(x_seq, t))
         IN  IF r.err # None THEN [r EXCEPT !.calls = calls \o r.calls]
             ELSE functional_multi_step_from(r.self, x_seq, t + 1,
                                             Append(y_seq, r.y[1]),
                                             calls \o r.calls)

\* mutant: the time steps are taken in decreasing order
RECURSIVE functional_multi_step_back(_, _, _, _, _)
functional_multi_step_back(self, x_seq, t, y_seq, calls) ==
    IF t < 1 THEN Returned(self, Stack(y_seq), calls)
    ELSE LET r == Sequential_forward(self, Select(x_seq, t))
         IN  IF r.err # None THEN [r EXCEPT !.calls = calls \o r.calls]
             ELSE functional_multi_step_back(r.self, x_seq, t - 1,
                                             <<r.y[1]>> \o y_seq,
                                             calls \o r.calls)

functional_multi_step_forward_reversed(self, x_seq) ==
    functional_multi_step_back(self, x_seq, x_seq.shape[1], <<>>, <<>>)

functional_multi_step_forward(self, x_seq) ==
    functional_multi_step_from(self, x_seq, 1, <<>>, <<>>)

\* the assert of the constructors on every contained module
StepModeAccepted(m) == m.step_mode = None \/ m.step_mode = Some("s")

\* mutant: the contained modules are not checked
MultiStepContainer_init_unchecked(mods) ==
    [cls |-> "MultiStepContainer", step_mode |-> "m", mods |-> mods]

MultiStepContainer_init(mods) ==
    IF \E k \in DOMAIN mods : ~StepModeAccepted(mods[k]) THEN AssertionError
    ELSE [cls |-> "MultiStepContainer", step_mode |-> "m", mods |-> mods]

\* mutant: the time steps are taken from the last to the first
MultiStepContainer_forward_reversed(self, x_seq) ==
    functional_multi_step_forward_reversed(self, x_seq)

MultiStepContainer_forward(self, x_seq) ==
    functional_multi_step_forward(self, x_seq)

SeqToANNContainer_init(mods) ==
    IF \E k \in DOMAIN mods : ~StepModeAccepted(mods[k]) THEN AssertionError
    ELSE [cls |-> "SeqToANNContainer", step_mode |-> "m", mods |-> mods]

\* mutant: the axes [T, N] are not restored
SeqToANNContainer_forward_unrestored(self, x_seq) ==
    Sequential_forward(self, Flatten01(x_seq))

SeqToANNContainer_forward(self, x_seq) ==
    seq_to_ann_forward(self, x_seq, Sequential_forward(self, Flatten01(x_seq)))

StepModeContainer_init(stateful, mods) ==
    IF \E k \in DOMAIN mods : ~StepModeAccepted(mods[k]) THEN AssertionError
    ELSE [cls |-> "StepModeContainer", step_mode |-> "s",
          stateful |-> stateful, mods |-> mods]

\* mutant: stateful is ignored in step mode 'm'
StepModeContainer_forward_merged(self, x) ==
    IF self.step_mode = "s" THEN Sequential_forward(self, x)
    ELSE seq_to_ann_forward(self, x, Sequential_forward(self, Flatten01(x)))

StepModeContainer_forward(self, x) ==
    IF self.step_mode = "s" THEN Sequential_forward(self, x)
    ELSE IF self.stateful THEN functional_multi_step_forward(self, x)
    ELSE seq_to_ann_forward(self, x, Sequential_forward(self, Flatten01(x)))

ContainerClasses ==
    {"MultiStepContainer", "SeqToANNContainer", "StepModeContainer"}

Container_forward(self, x) ==
    CASE self.cls = "MultiStepContainer" -> MultiStepContainer_forward(self, x)
      [] self.cls = "SeqToANNContainer" -> SeqToANNContainer_forward(self, x)
      [] self.cls = "StepModeContainer" -> StepModeContainer_forward(self, x)

\* functional.reset_net(net) on a container: reset() of every contained
\* module that has one
Container_reset_net(self) ==
    [self EXCEPT !.mods = [k \in DOMAIN @ |->
        IF @[k].kind = "IFNode" THEN Sub_reset(@[k]) ELSE @[k]]]

\* the sequences of modules the containers are built from
ContainedModules ==
    {<<Sub_init("Identity")>>, <<IFNode_init("s")>>, <<IFNode_init("m")>>,
     <<SubLinear_init(NumPixels, NumPixels)>>,
     <<Sub_init("Identity"), SubLinear_init(NumPixels, 1)>>,
     <<SubLinear_init(NumPixels, NumPixels), IFNode_init("s")>>,
     <<SubLinear_init(NumPixels, NumPixels), IFNode_init("m")>>}

\* the constructions: the class, the contained modules and what results
ContainerConstructions ==
    {[cls |-> "MultiStepContainer", args |-> mods,
      module |-> MultiStepContainer_init(mods)] : mods \in ContainedModules}
    \cup {[cls |-> "SeqToANNContainer", args |-> mods,
           module |-> SeqToANNContainer_init(mods)] : mods \in ContainedModules}
    \cup {[cls |-> "StepModeContainer", args |-> mods,
           module |-> StepModeContainer_init(stateful, mods)] :
              mods \in ContainedModules, stateful \in BOOLEAN}

\* the inputs [N, L] and [T, N, L] of the containers
ContainerInputs ==
    UNION {{Tensor(shape, [u \in Idx(shape) |-> Ravel(u, shape) % 2]),
            Tensor(shape, [u \in Idx(shape) |->
                      ((Ravel(u, shape) * Ravel(u, shape)) % 5) - 2])} :
           shape \in {<<NumSamples, NumPixels>>,
                      <<MaxT, NumSamples, NumPixels>>}}

OpContainerForward == "Sequential.forward"

ContainerInit ==
    /\ \E c \in ContainerConstructions :
          /\ layer = c.module
          /\ call = [op |-> "init", cls |-> c.cls, args |-> c.args]
    /\ twin = TwinIdle
    /\ sim = SimIdle

ContainerForward ==
    /\ layer.cls \in ContainerClasses
    /\ sim.steps < MaxSteps
    /\ \E x \in ContainerInputs :
          LET res == Container_forward(layer, x)
          IN  /\ layer' = res.self
              /\ call' = [op |-> OpContainerForward, mode |-> layer.step_mode,
                          x |-> x, y |-> res.y, err |-> res.err,
                          calls |-> res.calls]
    /\ sim' = [sim EXCEPT !.steps = @ + 1]
    /\ UNCHANGED twin

\* container.step_mode = value
ContainerSetStepMode ==
    /\ layer.cls = "StepModeContainer"
    /\ \E value \in {"s", "m"} :
          /\ layer' = [layer EXCEPT !.step_mode = value]
          /\ call' = [op |-> OpSetStepMode, value |-> value]
    /\ UNCHANGED <<twin, sim>>

ContainerResetNet ==
    /\ layer.cls \in ContainerClasses
    /\ layer' = Container_reset_net(layer)
    /\ call' = [op |-> OpResetNet]
    /\ UNCHANGED <<twin, sim>>

ContainerNext ==
    \/ ContainerForward
    \/ ContainerSetStepMode
    \/ ContainerResetNet

SpecContainer == ContainerInit /\ [][ContainerNext]_vars

(***************************************************************************)
(* Claims on the stateless wrappers.                                       *)
(***************************************************************************)
WrapFwd(c) == c.op = OpWrapperForward

\* the classes whose forward checks the number of dimensions
CheckedClasses ==
    {"Conv2d", "BatchNorm2d", "MaxPool2d", "AvgPool2d", "AdaptiveAvgPool2d"}

\* the classes whose forward dispatches on step_mode
DispatchingClasses == WrapperClasses \ {"Linear"}

\* the outcome of a forward is the outcome r of an operation
SameOutcome(c, self, r) ==
    c.err = r.err /\ c.y = r.y /\ c.calls = r.calls /\ self = r.self

\* C13: in step mode 'm' the forward of Conv2d, BatchNorm2d, MaxPool2d,
\* AvgPool2d and AdaptiveAvgPool2d raises ValueError on every input that
\* has not 5 dimensions, without invoking the wrapped operation and without
\* changing the module; in step mode 's' the input, whatever its number of
\* dimensions, is handed to the wrapped operation, whose outcome is the
\* forward's.
C13_ValueErrorUnlessFiveDims ==
    [][(layer.cls \in CheckedClasses /\ WrapFwd(call'))
         => /\ (layer.step_mode = "m" /\ Len(call'.x.shape) # 5)
                  => /\ call'.err = Some("ValueError")
                     /\ call'.calls = <<>>
                     /\ call'.y = None
                     /\ layer' = layer
            /\ layer.step_mode = "s"
                  => /\ call'.calls = <<call'.x.shape>>
                     /\ SameOutcome(call', layer',
                                    Wrapped_forward(layer, call'.x))]_vars

\* a multi-step forward on a 4-dimensional input, which the wrapped
\* operation would have accepted, that raised ValueError
C13_Witness ==
    /\ layer.cls \in CheckedClasses /\ WrapFwd(call)
    /\ call.mode = "m" /\ Len(call.x.shape) = 4
    /\ call.err = Some("ValueError") /\ call.calls = <<>>
    /\ Wrapped_forward(layer, call.x).err = None

\* C14: the forward of a wrapper other than Linear in step mode 's' is the
\* wrapped operation applied to x; in step mode 'm', when it returns, the
\* wrapped operation was applied exactly once, to x_seq with its axes
\* [T, N] merged into one of size T * N, and the output has the shape
\* [T, N] followed by the result's axes after the first, its element at
\* [t, n, ...] being the result's element at [t * N + n, ...].
C14_WrapperDispatch ==
    [][(layer.cls \in DispatchingClasses /\ WrapFwd(call'))
         => /\ layer.step_mode = "s"
                  => SameOutcome(call', layer',
                                 Wrapped_forward(layer, call'.x))
            /\ (layer.step_mode = "m" /\ call'.err = None)
                  => LET x_seq == call'.x
                         T == x_seq.shape[1]
                         N == x_seq.shape[2]
                         merged == <<T * N>>
                                       \o SubSeq(x_seq.shape, 3,
                                                 Len(x_seq.shape))
                         r == Wrapped_forward(layer, Flatten01(x_seq))
                         y == call'.y[1]
                     IN  /\ call'.calls = <<merged>>
                         /\ layer' = r.self
                         /\ y.shape = <<T, N>> \o Tail(r.y[1].shape)
                         /\ \A u \in Idx(y.shape) :
                               y.data[u]
                                   = r.y[1].data[<<(u[1] - 1) * N + u[2]>>
                                                   \o SubSeq(u, 3, Len(u))]]_vars

\* a multi-step forward of a BatchNorm2d on [T, N, C, H, W] with T > 1 and
\* N > 1 that returned and counted one batch
C14_Witness ==
    /\ layer.cls = "BatchNorm2d" /\ WrapFwd(call)
    /\ call.mode = "m" /\ call.err = None
    /\ Len(call.x.shape) = 5
    /\ call.x.shape[1] > 1 /\ call.x.shape[2] > 1
    /\ call.y[1].shape = call.x.shape
    /\ layer.num_batches_tracked = 1

\* C15 as stated: in step mode 'm' the forward of Linear applies the linear
\* map to the input with its time axis merged into the batch axis.
C15_LinearMergesTime ==
    [][(layer.cls = "Linear" /\ WrapFwd(call') /\ layer.step_mode = "m"
          /\ call'.err = None)
         => call'.calls = <<Flatten01(call'.x).shape>>]_vars

\* C15, amended: the forward of Linear does not select on step_mode: in
\* either step mode it applies the linear map once, along the last axis of
\* the input as given; for an input of at least three axes the output
\* equals the one that merging [T, N], applying the map and restoring
\* [T, N] gives.
C15_LinearAppliesDirectly ==
    [][(layer.cls = "Linear" /\ WrapFwd(call'))
         => /\ SameOutcome(call', layer', nn_Linear_forward(layer, call'.x))
            /\ call'.calls = <<call'.x.shape>>
            /\ Len(call'.x.shape) >= 3
                  => LET r == nn_Linear_forward(layer, Flatten01(call'.x))
                     IN  call'.y
                             = Some(View(r.y[1],
                                         <<call'.x.shape[1], call'.x.shape[2]>>
                                             \o Tail(r.y[1].shape)))]_vars

\* a forward of a Linear in step mode 'm' on [T, N, in_features] that
\* returned [T, N, out_features] from one call on the unmerged input
C15_Witness ==
    /\ layer.cls = "Linear" /\ WrapFwd(call)
    /\ call.mode = "m" /\ call.err = None
    /\ call.x.shape = <<MaxT, NumSamples, layer.in_features>>
    /\ call.calls = <<call.x.shape>>
    /\ call.y[1].shape = <<MaxT, NumSamples, layer.out_features>>

(***************************************************************************)
(* Claims on TemporalWiseAttention.                                        *)
(***************************************************************************)
AttFwd(c) == c.op = OpWrapperForward /\ layer.cls = "TemporalWiseAttention"

\* C20: a TemporalWiseAttention is constructed only with dimension 2 or 4
\* and T >= reduction; its forward on [T, N, C, H, W] (dimension 4) or
\* [T, N, L] (dimension 2) returns a tensor of the input's shape in which
\* every element of x_seq[t, n] is multiplied by one score of that (n, t).
C20_TemporalWiseAttention ==
    /\ (call.op = "init" /\ layer.cls = "TemporalWiseAttention")
          => /\ call.args.dimension \in {2, 4}
             /\ call.args.T >= call.args.reduction
    /\ AttFwd(call)
          => /\ (Len(call.x.shape) = layer.dimension + 1
                    /\ call.x.shape[1] = layer.T) => call.err = None
             /\ call.err = None
                   => /\ call.y[1].shape = call.x.shape
                      /\ \A u \in Idx(call.x.shape) :
                            /\ call.y[1].data[u].x = call.x.data[u]
                            /\ \A w \in SliceOf(call.x, u[1], u[2]) :
                                  call.y[1].data[w].score
                                      = call.y[1].data[u].score

\* a forward on [T, N, C, H, W] that returned, with T and N above 1 and
\* scores that differ between two time steps of one sample
C20_Witness ==
    /\ AttFwd(call) /\ call.err = None
    /\ layer.dimension = 4 /\ layer.T = MaxT /\ MaxT > 1
    /\ call.x.shape = <<MaxT, NumSamples, NumPlanes, 1, NumPixels>>
    /\ \E u, w \in Idx(call.x.shape) :
          /\ u[2] = w[2] /\ u[1] # w[1]
          /\ call.y[1].data[u].score # call.y[1].data[w].score

(***************************************************************************)
(* The constructions of all the classes that contain modules, for the      *)
(* claims on their constructors.                                           *)
(***************************************************************************)
SpecConstruction ==
    (ContainerInit \/ MemoryInit) /\ [][ContainerNext \/ MemoryNext]_vars

\* the classes whose constructor asserts on the contained modules
AssertingClasses ==
    ContainerClasses
        \cup {"ElementWiseRecurrentContainer", "LinearRecurrentContainer"}

\* C16: the construction of a MultiStepContainer, SeqToANNContainer,
\* StepModeContainer, ElementWiseRecurrentContainer or
\* LinearRecurrentContainer fails with AssertionError exactly when one of
\* the contained modules has a step_mode attribute that is not 's'; in
\* particular modules without the attribute are accepted.
C16_ConstructorAsserts ==
    (call.op = "init" /\ call.cls \in AssertingClasses)
        => /\ layer = AssertionError
                 <=> \E k \in DOMAIN call.args :
                        /\ call.args[k].step_mode # None
                        /\ call.args[k].step_mode # Some("s")
           /\ (\A k \in DOMAIN call.args : call.args[k].step_mode = None)
                 => layer.cls = call.cls

\* a construction that failed on its second module, the first one having
\* no step_mode attribute
C16_Witness ==
    /\ call.op = "init" /\ call.cls \in AssertingClasses
    /\ layer = AssertionError
    /\ Len(call.args) = 2
    /\ call.args[1].step_mode = None
    /\ call.args[2].step_mode = Some("m")

(***************************************************************************)
(* Claims on the forwards of the containers.                               *)
(***************************************************************************)
ContFwd(c) == c.op = OpContainerForward

\* the contained sequence holds no module with state
Stateless(self) ==
    \A k \in DOMAIN self.mods : self.mods[k].kind \in {"Identity", "Linear"}

\* the contained sequence treats the samples of x_seq one by one: a Linear
\* acts along the last axis, which must not be the sample axis
SampleWise(self, x_seq) ==
    \/ Len(x_seq.shape) >= 3
    \/ \A k \in DOMAIN self.mods : self.mods[k].kind = "Identity"

\* the container after the contained sequence was applied to the first t
\* time steps of x_seq, one after the other
RECURSIVE StateAfter(_, _, _)
StateAfter(self, x_seq, t) ==
    IF t = 0 THEN self
    ELSE Sequential_forward(StateAfter(self, x_seq, t - 1),
                            Select(x_seq, t)).self

\* the forward c on x_seq that took self to self2 applied the contained
\* sequence to x_seq[0], x_seq[1], ..., x_seq[T-1] in this order, each
\* once, every step from the state the step before left, and returned the
\* T results stacked in this order
Stepwise(self, c, self2) ==
    LET x_seq == c.x
        T == x_seq.shape[1]
        y_seq == c.y[1]
    IN  /\ c.calls = [t \in 1..T |-> Select(x_seq, t)]
        /\ y_seq.shape[1] = T
        /\ \A t \in 1..T :
              Some(Select(y_seq, t))
                  = Sequential_forward(StateAfter(self, x_seq, t - 1),
                                       Select(x_seq, t)).y
        /\ self2 = StateAfter(self, x_seq, T)

\* the forward c on x_seq that took self to self2 applied the contained
\* sequence once, to x_seq with its axes [T, N] merged, and returned the
\* result with the axes [T, N] restored
Merged(self, c, self2) ==
    LET x_seq == c.x
        r == Sequential_forward(self, Flatten01(x_seq))
        y_seq == c.y[1]
    IN  /\ c.calls = <<Flatten01(x_seq)>>
        /\ self2 = r.self
        /\ y_seq.shape = <<x_seq.shape[1], x_seq.shape[2]>>
                             \o Tail(r.y[1].shape)
        /\ \A u \in Idx(y_seq.shape) :
              y_seq.data[u]
                  = r.y[1].data[<<(u[1] - 1) * x_seq.shape[2] + u[2]>>
                                  \o SubSeq(u, 3, Len(u))]

\* C17: a StepModeContainer is constructed in step mode 's'; its forward
\* in step mode 's' is the contained sequence applied to x; in step mode
\* 'm', when it returns, it is step by step over the time axis with the
\* state carried if stateful is True, and once on the input with the time
\* axis merged into the batch axis if stateful is False.
C17_StepModeContainer ==
    /\ []((call.op = "init" /\ layer.cls = "StepModeContainer")
             => layer.step_mode = "s")
    /\ [][(layer.cls = "StepModeContainer" /\ ContFwd(call'))
             => /\ layer.step_mode = "s"
                      => SameOutcome(call', layer',
                                     Sequential_forward(layer, call'.x))
                /\ (layer.step_mode = "m" /\ call'.err = None)
                      => IF layer.stateful
                         THEN Stepwise(layer, call', layer')
                         ELSE Merged(layer, call', layer')]_vars

\* a multi-step forward of a stateful StepModeContainer holding a neuron,
\* whose last output differs from the one the neuron gives after a reset
C17_Witness ==
    /\ layer.cls = "StepModeContainer" /\ ContFwd(call)
    /\ call.mode = "m" /\ layer.stateful /\ call.err = None
    /\ Len(call.calls) = MaxT
    /\ Some(Select(call.y[1], MaxT))
          # Sequential_forward(Container_reset_net(layer),
                               Select(call.x, MaxT)).y

C24_ContainersAgree ==
    [][(ContFwd(call') /\ Stateless(layer) /\ SampleWise(layer, call'.x))
         => LET x_seq == call'.x
                a == MultiStepContainer_forward(layer, x_seq)
                b == SeqToANNContainer_forward(layer, x_seq)
            IN  /\ a.y = b.y /\ a.err = b.err
                /\ layer.cls \in {"MultiStepContainer", "SeqToANNContainer"}
                      => call'.y = a.y /\ call'.y = b.y
                /\ (layer.cls = "StepModeContainer" /\ layer.step_mode = "m")
                      => LET s1 == StepModeContainer_forward(
                                       [layer EXCEPT !.stateful = TRUE], x_seq)
                             s0 == StepModeContainer_forward(
                                       [layer EXCEPT !.stateful = FALSE], x_seq)
                         IN  /\ s1.y = s0.y /\ s1.err = s0.err
                             /\ call'.y = s1.y]_vars

\* a forward of a SeqToANNContainer holding a Linear on [T, N, L] with more
\* than one time step and sample, whose output the MultiStepContainer
\* gives too and whose samples differ
C24_Witness ==
    /\ layer.cls = "SeqToANNContainer" /\ ContFwd(call)
    /\ call.err = None
    /\ \E k \in DOMAIN layer.mods : layer.mods[k].kind = "Linear"
    /\ Stateless(layer)
    /\ call.x.shape = <<MaxT, NumSamples, NumPixels>>
    /\ MaxT > 1 /\ NumSamples > 1
    /\ call.y = MultiStepContainer_forward(layer, call.x).y
    /\ \E u, w \in Idx(call.y[1].shape) :
          call.y[1].data[u] # call.y[1].data[w]

(***************************************************************************)
(* Claims on SynapseFilter.                                                *)
(***************************************************************************)
\* the time constant tau of a filter: self.tau, or 1 + exp(-w), for which
\* sigmoid(w) = 1 / tau, when it is learnable
TimeConstant(self) ==
    IF self.learnable THEN RAdd(R(1), self.w[1].neg_log_of) ELSE self.tau[1]

\* the current a step finds: 0 after construction or reset
CurrentOf(self, q) == IF self.out_i = None THEN R(0) ELSE self.out_i[1][q]

SynFwd(self, c) == self.cls = "SynapseFilter" /\ MemSingleFwd(self, c)

\* C11: every single-step forward of a SynapseFilter returns, at every
\* element, I(t) = I(t-1) - (1 - S(t)) * I(t-1) / tau + S(t), I(t-1) being
\* 0 at the first step after construction or reset, and the value returned
\* is the value kept as the memory out_i.
C11_SynapseCurrentUpdate ==
    [][SynFwd(layer, call')
         => /\ \A q \in DOMAIN call'.x :
                 LET I == CurrentOf(layer, q)
                     S == call'.x[q]
                 IN  call'.y[q]
                         = RAdd(RSub(I, RDiv(RMul(RSub(R(1), S), I),
                                             TimeConstant(layer))),
                                S)
            /\ layer'.out_i = Some(call'.y)]_vars

\* a step on an input with and without spikes that found a current, which
\* decayed where there was no spike and rose above 1 where there was one
C11_Witness ==
    /\ SynFwd(layer, call)
    /\ \E q \in DOMAIN call.x :
          /\ call.x[q] = R(0)
          /\ RLess(R(0), call.y[q]) /\ RLess(call.y[q], R(1))
    /\ \E q \in DOMAIN call.x : call.x[q] = R(1) /\ RLess(R(1), call.y[q])

\* C12: a constructed SynapseFilter has tau > 1; on binary spikes a step
\* with a spike raises the current by exactly 1 and a step without one
\* multiplies it by 1 - 1/tau, which neither raises it nor makes it
\* negative; the current is >= 0 in every reachable state.
C12_SynapseCurrentBounds ==
    /\ [](layer.cls = "SynapseFilter"
             => /\ RLess(R(1), TimeConstant(layer))
                /\ layer.out_i # None
                      => \A q \in DOMAIN layer.out_i[1] :
                            ~RLess(layer.out_i[1][q], R(0)))
    /\ [][SynFwd(layer, call')
             => \A q \in DOMAIN call'.x :
                   LET I == CurrentOf(layer, q)
                   IN  /\ call'.x[q] = R(1) => call'.y[q] = RAdd(I, R(1))
                       /\ call'.x[q] = R(0)
                             => /\ call'.y[q]
                                     = RMul(I, RSub(R(1),
                                         RDiv(R(1), TimeConstant(layer))))
                                /\ ~RLess(I, call'.y[q])
                                /\ ~RLess(call'.y[q], R(0))]_vars

\* a spike-free step that lowered a positive current, still positive
C12_Witness ==
    /\ SynFwd(layer, call)
    /\ layer.learnable
    /\ \A q \in DOMAIN call.x : call.x[q] = R(0) /\ RLess(R(0), call.y[q])

(***************************************************************************)
(* Claims on NeuNorm.                                                      *)
(***************************************************************************)
NeuNormFwd(self, c) == self.cls = "NeuNorm" /\ MemSingleFwd(self, c)

\* C19: k0 + k1 * in_channels^2 = 1; every single-step forward of a NeuNorm
\* makes the memory x, 0 after construction or reset, k0 * x + k1 * (the sum
\* of the input spikes over the channels), x having the one channel 1, and
\* returns in_spikes - w * x for the updated x.
C19_NeuNormUpdate ==
    /\ [](layer.cls = "NeuNorm"
             => RAdd(layer.k0, RMul(layer.k1, R(NumPlanes * NumPlanes)))
                    = R(1))
    /\ [][NeuNormFwd(layer, call')
             => /\ DOMAIN layer'.x[1] = {1} \X Pixels
                /\ \A px \in Pixels :
                      layer'.x[1][<<1, px>>]
                          = RAdd(RMul(layer.k0,
                                      IF layer.x = None THEN R(0)
                                      ELSE layer.x[1][<<1, px>>]),
                                 RMul(layer.k1,
                                      RSumSeq([c \in 1..NumPlanes |->
                                                  call'.x[<<c, px>>]])))
                /\ \A q \in DOMAIN call'.x :
                      call'.y[q]
                          = RSub(call'.x[q],
                                 RMul(layer.w[<<IF layer.shared THEN 1
                                                ELSE q[1], q[2]>>],
                                      layer'.x[1][<<1, q[2]>>]))]_vars

\* a step of a NeuNorm with one weight plane per channel on an input with
\* and without spikes, whose memory holds more than this step's spikes give
C19_Witness ==
    /\ NeuNormFwd(layer, call)
    /\ ~layer.shared
    /\ \E q \in DOMAIN call.x : call.x[q] = R(0)
    /\ \E q \in DOMAIN call.x : call.x[q] = R(1)
    /\ \E px \in Pixels :
          RLess(RMul(layer.k1, RSumSeq([c \in 1..NumPlanes |->
                                           call.x[<<c, px>>]])),
                layer.x[1][<<1, px>>])

(***************************************************************************)
(* The whole model: one module of any of the classes, and the operations   *)
(* of its class.                                                           *)
(***************************************************************************)
(***************************************************************************)
(* SResNetTrainer (VGG_test.py): the hooks the training driver overrides.  *)
(* The trainer holds no state of its own; layer is the trainer with the    *)
(* parsed arguments, call the last hook called and its outcome.            *)
(***************************************************************************)
\* x.unsqueeze(0)
unsqueeze0(x) ==
    LET shape == <<1>> \o x.shape
    IN  Tensor(shape, [u \in Idx(shape) |-> x.data[Tail(u)]])

\* x.repeat(*sizes): fewer sizes than dimensions or a negative size raise;
\* the shape is padded with leading ones and tiled sizes[k] times along k
repeat(self, x, sizes) ==
    IF Len(sizes) < Len(x.shape) \/ \E k \in DOMAIN sizes : sizes[k] < 0
    THEN Raised(self, "RuntimeError", <<>>)
    ELSE LET lead == Len(sizes) - Len(x.shape)
             padded == [k \in 1..Len(sizes) |->
                           IF k <= lead THEN 1 ELSE x.shape[k - lead]]
             shape == [k \in 1..Len(sizes) |-> padded[k] * sizes[k]]
         IN  Returned(self,
                 Tensor(shape, [u \in Idx(shape) |->
                     x.data[[k \in 1..Len(x.shape) |->
                         ((u[k + lead] - 1) % padded[k + lead]) + 1]]]),
                 <<>>)

\* y.mean(0) over at least one element; the mean over none is nan
mean0(y) ==
    LET T == y.shape[1]
        shape == Tail(y.shape)
    IN  Tensor(shape, [u \in Idx(shape) |->
            IF T = 0 THEN "nan"
            ELSE RNorm(SumSeq([t \in 1..T |-> y.data[<<t>> \o u]]), T)])

\* mutant: the sum over the time axis
process_model_output_sum(self, args, y) ==
    Returned(self,
        Tensor(Tail(y.shape), [u \in Idx(Tail(y.shape)) |->
            R(SumSeq([t \in 1..y.shape[1] |-> y.data[<<t>> \o u]]))]),
        <<>>)

\* mutant: the time axis is added but the sample is not repeated
preprocess_test_sample_unrepeated(self, args, x) ==
    Returned(self, unsqueeze0(x), <<>>)

preprocess_train_sample(self, args, x) ==
    repeat(self, unsqueeze0(x), <<args.T, 1, 1, 1, 1>>)

preprocess_test_sample(self, args, x) ==
    repeat(self, unsqueeze0(x), <<args.T, 1, 1, 1, 1>>)

process_model_output(self, args, y) ==
    Returned(self, mean0(y), <<>>)

\* spiking_vgg.__all__: the names of the model builders
spiking_vgg_all == {"spiking_vgg11", "spiking_vgg16_bn"}

\* spiking_vgg.__dict__[name](pretrained, spiking_neuron=neuron.LIFNode,
\* ..., num_classes): a network whose modules are built in step mode 's'
\* and whose LIF neurons use the torch backend
spiking_vgg_build(name, pretrained, num_classes) ==
    [cls |-> "SpikingVGG", name |-> name, pretrained |-> pretrained,
     spiking_neuron |-> "LIFNode", num_classes |-> num_classes,
     step_mode |-> "s", backend |-> "torch"]

\* functional.set_step_mode(net, step_mode)
set_step_mode(net, step_mode) == [net EXCEPT !.step_mode = step_mode]

\* functional.set_backend(net, backend, instance) for the neurons of net
set_backend(net, backend, instance) ==
    IF net.spiking_neuron = instance THEN [net EXCEPT !.backend = backend]
    ELSE net

\* mutant: the backend is set before the step mode
load_model_backend_first(self, args, num_classes) ==
    IF args.model \in spiking_vgg_all
    THEN LET model == spiking_vgg_build(args.model, args.pretrained,
                                        num_classes)
             model1 == IF args.cupy
                       THEN set_backend(model, "cupy", "LIFNode")
                       ELSE model
         IN  Returned(self, set_step_mode(model1, "m"),
                 <<[fn |-> "spiking_vgg", name |-> args.model,
                    num_classes |-> num_classes]>>
                 \o (IF args.cupy
                     THEN <<[fn |-> "set_backend", backend |-> "cupy"]>>
                     ELSE <<>>)
                 \o <<[fn |-> "set_step_mode", step_mode |-> "m"]>>)
    ELSE Raised(self, "ValueError", <<>>)

\* load_model: the outcome and the calls made, in their order
load_model(self, args, num_classes) ==
    IF args.model \in spiking_vgg_all
    THEN LET model == spiking_vgg_build(args.model, args.pretrained,
                                        num_classes)
             model1 == set_step_mode(model, "m")
             model2 == IF args.cupy
                       THEN set_backend(model1, "cupy", "LIFNode")
                       ELSE model1
         IN  Returned(self, model2,
                 <<[fn |-> "spiking_vgg", name |-> args.model,
                    num_classes |-> num_classes],
                   [fn |-> "set_step_mode", step_mode |-> "m"]>>
                 \o (IF args.cupy
                     THEN <<[fn |-> "set_backend", backend |-> "cupy"]>>
                     ELSE <<>>))
    ELSE Raised(self, "ValueError", <<>>)

\* the parsed arguments: --T, --cupy, --model, --pretrained
ModelNames == spiking_vgg_all \cup {"spiking_resnet18"}

TrainerArgs ==
    [T : -1..MaxT, cupy : BOOLEAN, model : ModelNames, pretrained : BOOLEAN]

\* the batches x: [N, C, H, W], and with one axis less and one more
TrainerSamples ==
    UNION {{Tensor(shape, [u \in Idx(shape) |-> Ravel(u, shape)]),
            Tensor(shape, [u \in Idx(shape) |->
                      ((Ravel(u, shape) * Ravel(u, shape)) % 5) - 2])} :
           shape \in {<<NumSamples, NumPlanes, 1, NumPixels>>,
                      <<NumPlanes, 1, NumPixels>>,
                      <<1, NumSamples, NumPlanes, 1, NumPixels>>}}

\* the model outputs y of shape [T, N, K]: the same at every time step,
\* spikes that differ between the time steps, and values of both signs
TrainerOutputs ==
    UNION {{Tensor(shape, [u \in Idx(shape) |->
                      Ravel(Tail(u), Tail(shape)) - 1]),
            Tensor(shape, [u \in Idx(shape) |-> Ravel(u, shape) % 2]),
            Tensor(shape, [u \in Idx(shape) |->
                      ((Ravel(u, shape) * Ravel(u, shape)) % 5) - 2])} :
           shape \in {<<T, NumSamples, 2>> : T \in 1..MaxT}}

OpPreprocessTrain == "preprocess_train_sample"
OpPreprocessTest == "preprocess_test_sample"
OpProcessOutput == "process_model_output"
OpLoadModel == "load_model"

TrainerInit ==
    /\ \E args \in TrainerArgs :
          layer = [cls |-> "SResNetTrainer", args |-> args]
    /\ call = [op |-> "init"]
    /\ twin = TwinIdle
    /\ sim = SimIdle

TrainerCalled(op, x, res) ==
    /\ layer' = res.self
    /\ call' = [op |-> op, x |-> x, y |-> res.y, err |-> res.err,
                calls |-> res.calls]
    /\ UNCHANGED <<twin, sim>>

TrainerPreprocessTrain ==
    /\ layer.cls = "SResNetTrainer"
    /\ \E x \in TrainerSamples :
          TrainerCalled(OpPreprocessTrain, x,
                        preprocess_train_sample(layer, layer.args, x))

TrainerPreprocessTest ==
    /\ layer.cls = "SResNetTrainer"
    /\ \E x \in TrainerSamples :
          TrainerCalled(OpPreprocessTest, x,
                        preprocess_test_sample(layer, layer.args, x))

TrainerProcessOutput ==
    /\ layer.cls = "SResNetTrainer"
    /\ \E y \in TrainerOutputs :
          TrainerCalled(OpProcessOutput, y,
                        process_model_output(layer, layer.args, y))

TrainerLoadModel ==
    /\ layer.cls = "SResNetTrainer"
    /\ \E num_classes \in {10, 100} :
          TrainerCalled(OpLoadModel, num_classes,
                        load_model(layer, layer.args, num_classes))

TrainerNext ==
    \/ TrainerPreprocessTrain
    \/ TrainerPreprocessTest
    \/ TrainerProcessOutput
    \/ TrainerLoadModel

SpecTrainer == TrainerInit /\ [][TrainerNext]_vars

(***************************************************************************)
(* Claims on SResNetTrainer.                                               *)
(***************************************************************************)
Preprocessed(c) == c.op \in {OpPreprocessTrain, OpPreprocessTest}

\* C21: preprocess_train_sample and preprocess_test_sample map a batch x
\* of shape [N, C, H, W] to a tensor of shape [T, N, C, H, W], T = args.T,
\* whose every time slice equals x, and the two give the same result on
\* every input.
C21_PreprocessRepeats ==
    Preprocessed(call)
       => /\ (Len(call.x.shape) = 4 /\ layer.args.T >= 0)
                => /\ call.err = None
                   /\ call.y[1].shape = <<layer.args.T>> \o call.x.shape
                   /\ \A t \in 1..layer.args.T :
                         Select(call.y[1], t) = call.x
          /\ LET a == preprocess_train_sample(layer, layer.args, call.x)
                 b == preprocess_test_sample(layer, layer.args, call.x)
             IN  /\ a = b
                 /\ call.y = a.y /\ call.err = a.err

\* a test sample [N, C, H, W] repeated over more than one time step
C21_Witness ==
    /\ call.op = OpPreprocessTest /\ call.err = None
    /\ call.x.shape = <<NumSamples, NumPlanes, 1, NumPixels>>
    /\ layer.args.T = MaxT /\ MaxT > 1
    /\ call.y[1].shape = <<MaxT, NumSamples, NumPlanes, 1, NumPixels>>
    /\ \E u, w \in Idx(call.x.shape) : call.x.data[u] # call.x.data[w]

\* C22: process_model_output returns the mean of y over its leading time
\* axis: [T, N, K] becomes [N, K], every element the sum over the T time
\* steps divided by T, and an output that is the same at every time step
\* is returned as that per-step output.
C22_FiringRate ==
    call.op = OpProcessOutput
       => LET y == call.x
              T == y.shape[1]
              rate == call.y[1]
          IN  /\ call.err = None
              /\ rate.shape = Tail(y.shape)
              /\ \A u \in Idx(rate.shape) :
                    RMul(rate.data[u], R(T))
                        = R(SumSeq([t \in 1..T |-> y.data[<<t>> \o u]]))
              /\ (\A t \in 1..T : Select(y, t) = Select(y, 1))
                    => \A u \in Idx(rate.shape) :
                          rate.data[u] = R(y.data[<<1>> \o u])

\* an output over more than one time step, the same at every step and
\* with elements that differ and are not zero, reduced to [N, K]
C22_Witness ==
    /\ call.op = OpProcessOutput /\ call.err = None
    /\ call.x.shape = <<MaxT, NumSamples, 2>> /\ MaxT > 1
    /\ call.y[1].shape = <<NumSamples, 2>>
    /\ \A t \in 1..MaxT : Select(call.x, t) = Select(call.x, 1)
    /\ \E u, w \in Idx(call.y[1].shape) :
          /\ call.y[1].data[u] # R(0)
          /\ call.y[1].data[u] # call.y[1].data[w]

ModelLoaded(c) == c.op = OpLoadModel

\* the position of the call of fn in calls, 0 when it was not called
CalledAt(calls, fn) ==
    IF \E k \in DOMAIN calls : calls[k].fn = fn
    THEN CHOOSE k \in DOMAIN calls : calls[k].fn = fn
    ELSE 0

\* C23: load_model raises ValueError, having built no model, when
\* args.model is not in spiking_vgg.__all__; otherwise it returns the built
\* model in step mode 'm', with the cupy backend on its LIF neurons exactly
\* when args.cupy, the backend being set after the step mode.
C23_LoadModel ==
    ModelLoaded(call)
       => IF layer.args.model \notin spiking_vgg_all
          THEN /\ call.err = Some("ValueError")
               /\ call.y = None
               /\ call.calls = <<>>
          ELSE /\ call.err = None
               /\ call.y[1].name = layer.args.model
               /\ call.y[1].step_mode = "m"
               /\ CalledAt(call.calls, "set_step_mode") > 0
               /\ (call.y[1].backend = "cupy") <=> layer.args.cupy
               /\ (CalledAt(call.calls, "set_backend") > 0)
                     <=> layer.args.cupy
               /\ layer.args.cupy
                     => CalledAt(call.calls, "set_backend")
                            > CalledAt(call.calls, "set_step_mode")

\* a model loaded with --cupy
C23_Witness ==
    /\ ModelLoaded(call) /\ call.err = None
    /\ layer.args.cupy
    /\ call.y[1].backend = "cupy" /\ call.y[1].step_mode = "m"
    /\ Len(call.calls) = 3

Init ==
    \/ DropoutInit
    \/ DropConnectInit
    \/ MemoryInit
    \/ WrapperInit
    \/ AttentionInit
    \/ ContainerInit
    \/ TrainerInit

Next ==
    \/ DropoutNext
    \/ DropConnectNext
    \/ MemoryNext
    \/ WrapperNext
    \/ ContainerNext
    \/ TrainerNext

Spec == Init /\ [][Next]_vars

====
